---- MODULE Spec2Model ----
(***************************************************************************)
(* Heuristic lexical analysis engine of scripts/migration_cli.py:          *)
(* ScorecardChecker._compute_comment_lines (the comment classifier),       *)
(* ScorecardChecker._effective_distance (the semantic distance) and        *)
(* ScorecardChecker.check_conditional_on_missing_bean (the annotation      *)
(* pairer and its pass/fail verdict).                                      *)
(*                                                                         *)
(* A line of text is a sequence of one-character strings.  Line indices    *)
(* are zero-based as in the source (enumerate(lines)); line index i of a   *)
(* list ls is ls[i + 1].                                                   *)
(***************************************************************************)
EXTENDS Integers, Sequences, FiniteSets, TLC

VARIABLES
    pc,                 \* position of the running operation
    lines,              \* content.splitlines() of the file at hand
    i,                  \* _compute_comment_lines: loop index
    in_block,           \* _compute_comment_lines: inside an open block comment
    comment_lines,      \* set of zero-based comment line indices
    tree,               \* the source tree: role -> directory found, files matched
    files_to_scan,      \* the files collected from the tree
    f,                  \* position of the file loop in files_to_scan
    bean_indices,       \* @Bean line indices of the file, ascending
    comb_indices,       \* @ConditionalOnMissingBean line indices, ascending
    used_combs,         \* satisfies markers consumed in this file
    k,                  \* position of the bean loop in bean_indices
    total_beans,
    beans_without_comb, \* sequence of <<file position, bean_idx>>
    pairs,              \* history: <<file position, bean_idx, comb_idx>> consumed
    passed,             \* CheckResult.passed, set when pc = "done"
    dist_a, dist_b,     \* _effective_distance: the arguments of the last call
    dist,               \* _effective_distance: the value of the last call
    result,             \* a VerifyResult: its list of PhaseResults
    accessed,           \* the property read last, since the lists last changed
    score_value,        \* value of the score property read last
    flag_value,         \* value of the all_passed property read last
    project,            \* the directories and files the RepoDetector points at
    declared,           \* the DIMENSIONS table of the process
    methods_validated,  \* ScorecardChecker._methods_validated
    pkg_cache,          \* self._pkg_cache: name -> lookup result
    test_pkg_cache,     \* self._test_pkg_cache: name -> lookup result
    walked,             \* history: <<root, name>> of the tree walks of this checker
    rewalked,           \* history: a <<root, name>> was walked a second time
    invoked,            \* history: evaluators invoked by the current call, in order
    phase_num,          \* run_all / run_phase: the phase at hand
    run_checks,         \* run_all / run_phase: the local list `checks`
    run_phases,         \* run_all: the local list `phases`
    all_result,         \* history: the last VerifyResult returned by run_all
    calls,              \* number of calls made on checkers so far
    error,              \* the exception raised, "none" when there is none
    op,                 \* the method of ScorecardChecker called last
    found_dir,          \* the value the last package lookup returned
    check_result,       \* the CheckResult the last evaluator returned
    imported,           \* _is_forbidden_import: the argument import_path
    forbidden,          \* _is_forbidden_import: the value returned
    is_reference,       \* RepoDetector.is_reference of the target
    state_file,         \* .migration/state.yml of the target
    now,                \* the clock: commands run on the target so far
    guide,              \* what the last init or guide command did
    poc_data,           \* poc-data.yml: the list of services
    attempt             \* the attempt ResultsRecorder.record returned last

vars == <<pc, lines, i, in_block, comment_lines, tree, files_to_scan, f,
          bean_indices, comb_indices, used_combs, k, total_beans,
          beans_without_comb, pairs, passed, dist_a, dist_b, dist,
          result, accessed, score_value, flag_value,
          project, declared, methods_validated, pkg_cache, test_pkg_cache,
          walked, rewalked, invoked, phase_num, run_checks, run_phases, all_result,
          calls, error, op, found_dir, check_result, imported, forbidden,
          is_reference, state_file, now, guide, poc_data, attempt>>

classifierVars == <<lines, i, in_block, comment_lines>>
pairerVars == <<tree, files_to_scan, f, bean_indices, comb_indices, used_combs,
                k, total_beans, beans_without_comb, pairs, passed>>
distanceVars == <<dist_a, dist_b, dist>>
scoreVars == <<result, accessed, score_value, flag_value>>
checkerVars == <<project, declared, methods_validated, pkg_cache, test_pkg_cache,
                 walked, rewalked, invoked, phase_num, run_checks, run_phases,
                 all_result, calls, error, op, found_dir, check_result>>
importVars == <<imported, forbidden>>
toolVars == <<is_reference, state_file, now, guide, poc_data, attempt>>
runVars == <<checkerVars, importVars, toolVars>>
scorecardVars == <<scoreVars, runVars>>

-----------------------------------------------------------------------------
(* Characters and the literal tokens of the scanned text.                  *)

DQ == "\""
BSL == "\\"
WS == " "

SLASH_SLASH == <<"/", "/">>
SLASH_STAR == <<"/", "*">>
STAR_SLASH == <<"*", "/">>
STAR == <<"*">>
ESCAPED_QUOTE == <<BSL, DQ>>
\* "@B" stands for the text @Bean, "@C" for @ConditionalOnMissingBean.
BEAN == <<"@", "B">>
COMB == <<"@", "C">>

-----------------------------------------------------------------------------
(* Python's str operations on lines.                                       *)

LineAt(ls, idx) == ls[idx + 1]

RECURSIVE LStrip(_)
LStrip(s) ==
    IF s # <<>> /\ Head(s) = WS THEN LStrip(Tail(s)) ELSE s

RECURSIVE RStrip(_)
RStrip(s) ==
    IF s # <<>> /\ s[Len(s)] = WS THEN RStrip(SubSeq(s, 1, Len(s) - 1)) ELSE s

\* str.strip()
Strip(s) == RStrip(LStrip(s))

\* str.startswith(p)
StartsWith(s, p) == Len(s) >= Len(p) /\ SubSeq(s, 1, Len(p)) = p

\* s[j:j+len(p)] == p, j zero-based
OccursAt(s, p, j) == j + Len(p) <= Len(s) /\ SubSeq(s, j + 1, j + Len(p)) = p

\* p in s
Contains(s, p) == \E j \in 0..(Len(s) - Len(p)) : OccursAt(s, p, j)

RECURSIVE FindFrom(_, _, _)
FindFrom(s, p, j) ==
    IF j + Len(p) > Len(s) THEN 0 - 1
    ELSE IF OccursAt(s, p, j) THEN j
    ELSE FindFrom(s, p, j + 1)

\* str.find(p): lowest zero-based index of p in s, -1 when absent
Find(s, p) == FindFrom(s, p, 0)

RECURSIVE CountFrom(_, _, _)
CountFrom(s, p, j) ==
    IF j + Len(p) > Len(s) THEN 0
    ELSE IF OccursAt(s, p, j) THEN 1 + CountFrom(s, p, j + Len(p))
    ELSE CountFrom(s, p, j + 1)

\* str.count(p): number of non-overlapping occurrences, scanning left to right
Count(s, p) == CountFrom(s, p, 0)

\* re.compile(r"^\s*" + tok).match(line)
PatternMatch(tok, line) == StartsWith(LStrip(line), tok)

bean_pattern(line) == PatternMatch(BEAN, line)
comb_pattern(line) == PatternMatch(COMB, line)

-----------------------------------------------------------------------------
(* _compute_comment_lines: one iteration of the loop over the lines.  The  *)
(* value of a branch is the pair (the line is added to comment_lines, the  *)
(* value of in_block after the line).                                      *)

\* InBlockLine looking for the close token at the start of the line only
InBlockLineClosedAtStart(stripped) ==
    [mark |-> TRUE, in_block |-> ~StartsWith(stripped, STAR_SLASH)]

\* `if in_block:`
InBlockLine(stripped) ==
    [mark |-> TRUE, in_block |-> ~Contains(stripped, STAR_SLASH)]

\* `if stripped.startswith("//"):`
IsFullLineComment(stripped) == StartsWith(stripped, SLASH_SLASH)

\* IsContinuationLine without `and not stripped.startswith("*/")`
IsContinuationLineAnyStar(stripped) == StartsWith(stripped, STAR)

\* `if stripped.startswith("*") and not stripped.startswith("*/"):`
IsContinuationLine(stripped) ==
    StartsWith(stripped, STAR) /\ ~StartsWith(stripped, STAR_SLASH)

\* `if stripped.startswith("/*"):`
BlockStartLine(stripped) ==
    [mark |-> TRUE, in_block |-> ~Contains(stripped, STAR_SLASH)]

\* InsideStringLiteral without `- before.count('\\"')`
InsideStringLiteralCountingEscaped(stripped) ==
    LET slash_star_pos == Find(stripped, SLASH_STAR)
        before == SubSeq(stripped, 1, slash_star_pos)
        quote_count == Count(before, <<DQ>>)
    IN  quote_count % 2 = 1

\* `quote_count % 2 == 1` for the text before the first "/*"
InsideStringLiteral(stripped) ==
    LET slash_star_pos == Find(stripped, SLASH_STAR)
        before == SubSeq(stripped, 1, slash_star_pos)
        quote_count == Count(before, <<DQ>>) - Count(before, ESCAPED_QUOTE)
    IN  quote_count % 2 = 1

\* MidLineOpen adding the line to comment_lines
MidLineOpenMarked(stripped) ==
    IF InsideStringLiteral(stripped)
    THEN [mark |-> FALSE, in_block |-> FALSE]
    ELSE [mark |-> TRUE, in_block |-> ~Contains(stripped, STAR_SLASH)]

\* `elif "/*" in stripped:`
MidLineOpen(stripped) ==
    IF InsideStringLiteral(stripped)
    THEN [mark |-> FALSE, in_block |-> FALSE]
    ELSE [mark |-> FALSE, in_block |-> ~Contains(stripped, STAR_SLASH)]

ClassifyLine(blk, line) ==
    LET stripped == Strip(line)
    IN  IF blk THEN InBlockLine(stripped)
        ELSE IF IsFullLineComment(stripped)
        THEN [mark |-> TRUE, in_block |-> FALSE]
        ELSE IF IsContinuationLine(stripped)
        THEN [mark |-> TRUE, in_block |-> FALSE]
        ELSE IF StartsWith(stripped, SLASH_STAR) THEN BlockStartLine(stripped)
        ELSE IF Contains(stripped, SLASH_STAR) THEN MidLineOpen(stripped)
        ELSE [mark |-> FALSE, in_block |-> FALSE]

RECURSIVE ComputeFrom(_, _, _, _)
ComputeFrom(ls, idx, blk, acc) ==
    IF idx >= Len(ls) THEN acc
    ELSE LET r == ClassifyLine(blk, LineAt(ls, idx))
         IN  ComputeFrom(ls, idx + 1, r.in_block,
                         IF r.mark THEN acc \cup {idx} ELSE acc)

\* the whole function, as its callers use it
_compute_comment_lines(ls) == ComputeFrom(ls, 0, FALSE, {})

-----------------------------------------------------------------------------
(* _effective_distance                                                     *)

RECURSIVE CountCodeLines(_, _, _, _)
\* the loop `for i in range(lo + 1, hi)`, from index m on
CountCodeLines(m, hi, ls, cl) ==
    IF m >= hi THEN 0
    ELSE IF m \in cl THEN CountCodeLines(m + 1, hi, ls, cl)
    ELSE IF Strip(LineAt(ls, m)) = <<>> THEN CountCodeLines(m + 1, hi, ls, cl)
    ELSE 1 + CountCodeLines(m + 1, hi, ls, cl)

\* _effective_distance without the swap `(a, b) if a < b else (b, a)`
EffectiveDistanceUnordered(a, b, ls, cl) ==
    CountCodeLines(a + 1, b, ls, cl) + 1

_effective_distance(a, b, ls, cl) ==
    LET lo == IF a < b THEN a ELSE b
        hi == IF a < b THEN b ELSE a
    IN  CountCodeLines(lo + 1, hi, ls, cl) + 1

-----------------------------------------------------------------------------
(* check_conditional_on_missing_bean                                       *)

\* the literal 5 of `_effective_distance(...) <= 5`
PairingWindow == 5

Abs(n) == IF n < 0 THEN 0 - n ELSE n

\* the package directories searched, in the order the files are collected
Roles == <<"autoconfigure", "persistence", "rest", "events">>
RoleSet == {Roles[r] : r \in 1..Len(Roles)}

\* _find_package_dir(role) returned None
NoDir == [found |-> FALSE, files |-> <<>>]
\* the directory was found and its glob gave these files
Dir(files) == [found |-> TRUE, files |-> files]

\* a file whose read_text raises OSError or UnicodeDecodeError
Unreadable == [readable |-> FALSE, content |-> <<>>]
\* a file whose read_text gives these lines
File(content) == [readable |-> TRUE, content |-> content]

RECURSIVE CollectFrom(_, _)
\* files_to_scan: the glob result of every role whose directory was found
CollectFrom(t, r) ==
    IF r > Len(Roles) THEN <<>>
    ELSE (IF t[Roles[r]].found THEN t[Roles[r]].files ELSE <<>>)
         \o CollectFrom(t, r + 1)

RECURSIVE IndicesFrom(_, _, _, _)
\* the line indices, ascending, that are not comment lines and match tok
IndicesFrom(tok, ls, cl, m) ==
    IF m >= Len(ls) THEN <<>>
    ELSE (IF m \notin cl /\ PatternMatch(tok, LineAt(ls, m)) THEN <<m>> ELSE <<>>)
         \o IndicesFrom(tok, ls, cl, m + 1)

\* MarkerIndices without `if i in comment_lines: continue`
MarkerIndicesWithComments(tok, ls, cl) == IndicesFrom(tok, ls, {}, 0)

MarkerIndices(tok, ls, cl) == IndicesFrom(tok, ls, cl, 0)

RECURSIVE SortedByDistanceTiesReversed(_, _)
\* SortedByDistance by a sort that is not stable: of two candidates at the
\* same distance the later one comes first
SortedByDistanceTiesReversed(s, bean_idx) ==
    IF s = <<>> THEN <<>>
    ELSE LET init == SortedByDistanceTiesReversed(SubSeq(s, 1, Len(s) - 1), bean_idx)
             c == s[Len(s)]
             n == Cardinality({p \in 1..Len(init) :
                                  Abs(init[p] - bean_idx) < Abs(c - bean_idx)})
         IN  SubSeq(init, 1, n) \o <<c>> \o SubSeq(init, n + 1, Len(init))

RECURSIVE SortedByDistance(_, _)
\* sorted(s, key=lambda c: abs(c - bean_idx)): stable, ascending
SortedByDistance(s, bean_idx) ==
    IF s = <<>> THEN <<>>
    ELSE LET init == SortedByDistance(SubSeq(s, 1, Len(s) - 1), bean_idx)
             c == s[Len(s)]
             n == Cardinality({p \in 1..Len(init) :
                                  Abs(init[p] - bean_idx) <= Abs(c - bean_idx)})
         IN  SubSeq(init, 1, n) \o <<c>> \o SubSeq(init, n + 1, Len(init))

\* Eligible without `c not in used_combs`
EligibleReusing(bean_idx, combs, used, ls, cl) ==
    SelectSeq(combs, LAMBDA c :
        _effective_distance(c, bean_idx, ls, cl) <= PairingWindow)

\* Eligible with the raw line distance abs(c - bean_idx) <= 5
EligibleByRawDistance(bean_idx, combs, used, ls, cl) ==
    SelectSeq(combs, LAMBDA c :
        c \notin used /\ Abs(c - bean_idx) <= PairingWindow)

\* the generator filtered by `c not in used_combs and distance <= 5`
Eligible(bean_idx, combs, used, ls, cl) ==
    SelectSeq(combs, LAMBDA c :
        c \notin used /\ _effective_distance(c, bean_idx, ls, cl) <= PairingWindow)

\* Candidates without the sort: file order
CandidatesUnsorted(bean_idx, combs, used, ls, cl) ==
    Eligible(bean_idx, combs, used, ls, cl)

Candidates(bean_idx, combs, used, ls, cl) ==
    SortedByDistance(Eligible(bean_idx, combs, used, ls, cl), bean_idx)

\* Verdict without `len(beans_without_comb) == 0`
VerdictIgnoringUnmatched(total, without) == total > 0

\* `passed = total_beans > 0 and len(beans_without_comb) == 0`
Verdict(total, without) == total > 0 /\ Len(without) = 0

-----------------------------------------------------------------------------
(* The run of check_conditional_on_missing_bean over a source tree.        *)

\* files_to_scan is built from the directories found
CollectFiles ==
    /\ pc = "collect"
    /\ files_to_scan' = CollectFrom(tree, 1)
    /\ f' = 1
    /\ pc' = "files"
    /\ UNCHANGED scorecardVars
    /\ UNCHANGED <<classifierVars, tree, bean_indices, comb_indices, used_combs,
                   k, total_beans, beans_without_comb, pairs, passed, distanceVars>>

\* `except (OSError, UnicodeDecodeError): continue`
SkipUnreadable ==
    /\ pc = "files"
    /\ f <= Len(files_to_scan)
    /\ ~files_to_scan[f].readable
    /\ f' = f + 1
    /\ UNCHANGED scorecardVars
    /\ UNCHANGED <<pc, classifierVars, tree, files_to_scan, bean_indices,
                   comb_indices, used_combs, k, total_beans, beans_without_comb,
                   pairs, passed, distanceVars>>

\* the file is read, its comment lines computed, its markers collected and
\* used_combs emptied; a file without @Bean leaves the bean loop at once
ReadFile ==
    /\ pc = "files"
    /\ f <= Len(files_to_scan)
    /\ files_to_scan[f].readable
    /\ LET content == files_to_scan[f].content
           cl == _compute_comment_lines(content)
           beans == MarkerIndices(BEAN, content, cl)
       IN  /\ lines' = content
           /\ comment_lines' = cl
           /\ bean_indices' = beans
           /\ comb_indices' = MarkerIndices(COMB, content, cl)
           /\ used_combs' = {}
           /\ k' = 1
           /\ IF beans = <<>>
              THEN pc' = "files" /\ f' = f + 1
              ELSE pc' = "beans" /\ f' = f
    /\ UNCHANGED scorecardVars
    /\ UNCHANGED <<i, in_block, tree, files_to_scan, total_beans,
                   beans_without_comb, pairs, passed, distanceVars>>

\* one iteration of `for bean_idx in bean_indices`
PairBean ==
    /\ pc = "beans"
    /\ k <= Len(bean_indices)
    /\ LET bean_idx == bean_indices[k]
           candidates == Candidates(bean_idx, comb_indices, used_combs,
                                    lines, comment_lines)
       IN  /\ total_beans' = total_beans + 1
           /\ IF candidates # <<>>
              THEN /\ used_combs' = used_combs \cup {candidates[1]}
                   /\ pairs' = pairs \cup {<<f, bean_idx, candidates[1]>>}
                   /\ UNCHANGED beans_without_comb
              ELSE /\ beans_without_comb' =
                          Append(beans_without_comb, <<f, bean_idx>>)
                   /\ UNCHANGED <<used_combs, pairs>>
    /\ k' = k + 1
    /\ IF k = Len(bean_indices)
       THEN pc' = "files" /\ f' = f + 1
       ELSE pc' = "beans" /\ f' = f
    /\ UNCHANGED scorecardVars
    /\ UNCHANGED <<classifierVars, tree, files_to_scan, bean_indices,
                   comb_indices, passed, distanceVars>>

\* the CheckResult is returned
ReturnResult ==
    /\ pc = "files"
    /\ f > Len(files_to_scan)
    /\ passed' = Verdict(total_beans, beans_without_comb)
    /\ pc' = "done"
    /\ UNCHANGED scorecardVars
    /\ UNCHANGED <<classifierVars, tree, files_to_scan, f, bean_indices,
                   comb_indices, used_combs, k, total_beans, beans_without_comb,
                   pairs, distanceVars>>

-----------------------------------------------------------------------------
(* Inputs of the comment classifier: every list of at most                 *)
(* MaxClassifyLines lines drawn from LineShapes.                           *)

MaxClassifyLines == 3

LineShapes ==
    { <<"x">>,                                   \* code
      <<"/", "/", "x">>,                         \* // full-line comment
      <<WS, "*", "x">>,                          \*  * Javadoc continuation
      <<WS, "*", "/">>,                          \*  */
      <<"/", "*", "*">>,                         \* /** opens a block
      <<"/", "*", "x", "*", "/">>,               \* /* x */ single-line block
      <<"/", "*", "/">>,                         \* /*/
      <<"x", "/", "*">>,                         \* code /* opens a block
      <<"x", "/", "*", "*", "/", "x", "/", "*">>,\* code /**/ code /*
      <<"x", "*", "/">>,                         \* code */
      <<DQ, "/", "*", DQ>>,                      \* "/*"
      <<DQ, BSL, DQ, "/", "*">>,                 \* "\"/*
      <<DQ, BSL, DQ, DQ, "/", "*">> }            \* "\""/*

SeqsUpTo(S, n) == UNION { [1..m -> S] : m \in 0..n }

-----------------------------------------------------------------------------
(* Dataclasses CheckResult, PhaseResult, VerifyResult.  A weight is held   *)
(* as a whole number of units of 0.05; a score is the exact quotient in    *)
(* lowest terms, num / den.                                                *)

CheckResult(dimension, is_passed, detail, weight, phase) ==
    [dimension |-> dimension, passed |-> is_passed, detail |-> detail,
     weight |-> weight, phase |-> phase]

PhaseResult(phase, checks) == [phase |-> phase, checks |-> checks]

RECURSIVE GCD(_, _)
GCD(a, b) == IF b = 0 THEN a ELSE GCD(b, a % b)

\* the float 0.0
ZeroScore == [raised |-> FALSE, num |-> 0, den |-> 1]

ZeroDivisionError == [raised |-> TRUE, num |-> 0, den |-> 1]

\* (passed_weight / total_weight) * 100
Percentage(passed_weight, total_weight) ==
    IF total_weight = 0 THEN ZeroDivisionError
    ELSE LET g == GCD(passed_weight * 100, total_weight)
         IN  [raised |-> FALSE,
              num |-> (passed_weight * 100) \div g,
              den |-> total_weight \div g]

\* sum(c.weight for c in checks)
RECURSIVE SumWeight(_)
SumWeight(checks) ==
    IF checks = <<>> THEN 0
    ELSE checks[1].weight + SumWeight(Tail(checks))

\* sum(c.weight for c in checks if c.passed)
RECURSIVE SumPassedWeight(_)
SumPassedWeight(checks) ==
    IF checks = <<>> THEN 0
    ELSE (IF checks[1].passed THEN checks[1].weight ELSE 0)
             + SumPassedWeight(Tail(checks))

\* the iteration `for p in self.phases for c in p.checks`
RECURSIVE AllChecks(_)
AllChecks(phases) ==
    IF phases = <<>> THEN <<>>
    ELSE phases[1].checks \o AllChecks(Tail(phases))

\* score without `if total_weight == 0: return 0.0`
ScoreUnguarded(checks) ==
    Percentage(SumPassedWeight(checks), SumWeight(checks))

\* PhaseResult.score, of the checks of the phase
score(checks) ==
    LET total_weight == SumWeight(checks)
    IN  IF total_weight = 0 THEN ZeroScore
        ELSE Percentage(SumPassedWeight(checks), total_weight)

\* VerifyResult.overall_score
overall_score(phases) ==
    LET total_weight == SumWeight(AllChecks(phases))
    IN  IF total_weight = 0 THEN ZeroScore
        ELSE Percentage(SumPassedWeight(AllChecks(phases)), total_weight)

\* all(c.passed for c in checks)
RECURSIVE All(_)
All(flags) == IF flags = <<>> THEN TRUE ELSE flags[1] /\ All(Tail(flags))

\* all_passed looking at the first check only
AllPassedOfFirst(checks) == checks = <<>> \/ checks[1].passed

\* PhaseResult.all_passed
\* all_passed as any(c.passed for c in checks)
AnyPassed(checks) == \E c \in 1..Len(checks) : checks[c].passed

all_passed(checks) == All([c \in 1..Len(checks) |-> checks[c].passed])

\* VerifyResult.all_passed
VerifyResult_all_passed(phases) ==
    All([p \in 1..Len(phases) |-> all_passed(phases[p].checks)])

NoAccess == [prop |-> "none", phase |-> 0]

ScoreIdle ==
    /\ result = <<>> /\ accessed = NoAccess
    /\ score_value = ZeroScore /\ flag_value = FALSE

\* a root directory that does not exist
MissingRoot == [exists |-> FALSE, entries |-> <<>>]

NoProject ==
    [main |-> MissingRoot, test |-> MissingRoot, resources |-> MissingRoot,
     frontend |-> MissingRoot, ci |-> MissingRoot]

\* no lookup made, no evaluator called
NoLookup ==
    [root |-> "none", name |-> "", found |-> FALSE, path |-> <<>>, cached |-> FALSE]
NoCheck == CheckResult("none", FALSE, [text |-> "", nums |-> <<>>, items |-> <<>>], 0, 0)

CheckerIdle ==
    /\ project = NoProject /\ declared = <<>> /\ methods_validated = FALSE
    /\ pkg_cache = <<>> /\ test_pkg_cache = <<>>
    /\ walked = {} /\ rewalked = FALSE /\ invoked = <<>>
    /\ phase_num = 0 /\ run_checks = <<>> /\ run_phases = <<>>
    /\ all_result = <<>>
    /\ calls = 0 /\ error = "none"
    /\ op = "none" /\ found_dir = NoLookup /\ check_result = NoCheck

ImportIdle == imported = <<>> /\ forbidden = FALSE

\* phase_times without the key of a phase; a time of 0 is None
NoEntry ==
    [present |-> FALSE, started |-> 0, completed |-> 0,
     gate_skipped |-> FALSE, gate_skipped_at |-> 0]

\* no state file: StateManager.exists() is false
NoStateFile ==
    [exists |-> FALSE, service_name |-> "", current_phase |-> 0,
     phase_times |-> [n \in 0..5 |-> NoEntry]]

\* no command has run
NoCommand ==
    [command |-> "none", exit_code |-> 0, target_phase |-> <<>>,
     skip_gate |-> FALSE, view |-> "none", phase |-> 0, gate |-> "none",
     saved |-> FALSE]

\* no attempt has been returned
NoAttempt ==
    [attempt |-> 0, phase_reached |-> 0, scores |-> <<>>, notes |-> <<>>,
     saved |-> FALSE]

ToolIdle ==
    /\ is_reference = FALSE /\ state_file = NoStateFile /\ now = 0
    /\ guide = NoCommand /\ poc_data = <<>> /\ attempt = NoAttempt

RunIdle == CheckerIdle /\ ImportIdle /\ ToolIdle

ScorecardIdle == ScoreIdle /\ RunIdle

PairerIdle ==
    /\ tree = [r \in RoleSet |-> NoDir] /\ files_to_scan = <<>> /\ f = 0
    /\ bean_indices = <<>> /\ comb_indices = <<>> /\ used_combs = {}
    /\ k = 0 /\ total_beans = 0 /\ beans_without_comb = <<>>
    /\ pairs = {} /\ passed = FALSE

DistanceIdle == dist_a = 0 /\ dist_b = 0 /\ dist = 0

ClassifierIdle == i = 0 /\ in_block = FALSE

InitClassify ==
    /\ pc = "scan"
    /\ lines \in SeqsUpTo(LineShapes, MaxClassifyLines)
    /\ i = 0
    /\ in_block = FALSE
    /\ comment_lines = {}
    /\ PairerIdle
    /\ DistanceIdle
    /\ ScorecardIdle

\* one iteration of `for i, line in enumerate(lines)`
ScanLine ==
    /\ pc = "scan"
    /\ i < Len(lines)
    /\ LET r == ClassifyLine(in_block, LineAt(lines, i))
       IN  /\ comment_lines' = IF r.mark THEN comment_lines \cup {i}
                                         ELSE comment_lines
           /\ in_block' = r.in_block
    /\ i' = i + 1
    /\ UNCHANGED scorecardVars
    /\ UNCHANGED <<pc, lines, pairerVars, distanceVars>>

\* `return comment_lines`
ScanReturn ==
    /\ pc = "scan"
    /\ i = Len(lines)
    /\ pc' = "returned"
    /\ UNCHANGED scorecardVars
    /\ UNCHANGED <<classifierVars, pairerVars, distanceVars>>

NextClassify == ScanLine \/ ScanReturn

SpecClassify == InitClassify /\ [][NextClassify]_vars

\* the loop and the function its callers use compute the same set
ScanAgreesWithFunction ==
    pc = "returned" => comment_lines = _compute_comment_lines(lines)

-----------------------------------------------------------------------------
(* Inputs of check_conditional_on_missing_bean.                            *)
(*   SingleFiles: one *CoreAutoConfiguration.java of at most MaxPairLines  *)
(*     lines drawn from PairShapes: without blank and comment lines, or    *)
(*     with one marker of each kind, or of at most MaxMixedLines lines.    *)
(*   Corpus trees: at most MaxTreeFiles files of Corpus spread over the    *)
(*     four package directories, each of which may be absent.              *)

MaxPairLines == 7
MaxMixedLines == 4
MaxTreeFiles == 2

BeanLine == <<WS, "@", "B">>
CombLine == <<WS, "@", "C">>
CodeLine == <<"x">>
BlankLine == <<WS>>
CommentLine == <<"/", "/", "x">>

PairShapes == {BeanLine, CombLine, CodeLine, BlankLine, CommentLine}

CountOf(file, shapes) == Cardinality({p \in 1..Len(file) : file[p] \in shapes})

SingleFile(file) ==
    \/ CountOf(file, {BlankLine, CommentLine}) = 0
    \/ Len(file) <= MaxMixedLines
    \/ CountOf(file, {BeanLine}) = 1 /\ CountOf(file, {CombLine}) = 1

SingleFileTree(file) ==
    [r \in RoleSet |-> IF r = "autoconfigure" THEN Dir(<<File(file)>>) ELSE NoDir]

Corpus ==
    { Unreadable,
      File(<<CombLine, BeanLine>>),
      \* one @Bean, two @ConditionalOnMissingBean
      File(<<CombLine, CombLine, BeanLine>>),
      \* two @Bean, one @ConditionalOnMissingBean
      File(<<CodeLine, BeanLine, CombLine, CodeLine, BlankLine, BeanLine,
             CodeLine>>),
      \* a @Bean inside a block comment
      File(<<SLASH_STAR, BeanLine, <<WS, "*", "/">>, CodeLine>>),
      \* a @ConditionalOnMissingBean inside a block comment
      File(<<SLASH_STAR, CombLine, <<WS, "*", "/">>, BeanLine>>) }

RECURSIVE PlacedAt(_, _, _, _)
\* the files of fs, from position p on, that place puts in directory r
PlacedAt(fs, place, r, p) ==
    IF p > Len(fs) THEN <<>>
    ELSE (IF Roles[place[p]] = r THEN <<fs[p]>> ELSE <<>>)
         \o PlacedAt(fs, place, r, p + 1)

\* the tree holding the files fs, file p in directory Roles[place[p]]; the
\* directories without files are all absent, or all found and empty
TreeOf(fs, place, absent) ==
    [r \in RoleSet |->
        IF PlacedAt(fs, place, r, 1) = <<>> /\ absent
        THEN NoDir
        ELSE Dir(PlacedAt(fs, place, r, 1))]

Init ==
    /\ pc = "collect"
    /\ \/ \E file \in SeqsUpTo(PairShapes, MaxPairLines) :
              SingleFile(file) /\ tree = SingleFileTree(file)
       \/ \E fs \in SeqsUpTo(Corpus, MaxTreeFiles) :
              \E place \in [1..Len(fs) -> 1..Len(Roles)], absent \in BOOLEAN :
                  /\ \A p \in 1..(Len(fs) - 1) : place[p] <= place[p + 1]
                  /\ tree = TreeOf(fs, place, absent)
    /\ files_to_scan = <<>>
    /\ f = 0
    /\ lines = <<>>
    /\ comment_lines = {}
    /\ ClassifierIdle
    /\ bean_indices = <<>> /\ comb_indices = <<>> /\ used_combs = {}
    /\ k = 0 /\ total_beans = 0 /\ beans_without_comb = <<>>
    /\ pairs = {} /\ passed = FALSE
    /\ DistanceIdle
    /\ ScorecardIdle

Next == CollectFiles \/ SkipUnreadable \/ ReadFile \/ PairBean \/ ReturnResult

Spec == Init /\ [][Next]_vars

-----------------------------------------------------------------------------
(* Vocabulary of the properties, stated on the text and not through the    *)
(* operators above.                                                        *)

\* the line is empty or whitespace only
IsBlank(line) == \A p \in 1..Len(line) : line[p] = WS

\* the line is tok after optional leading whitespace
HasMarker(tok, line) ==
    \E p \in 0..Len(line) :
        (\A q \in 1..p : line[q] = WS) /\ OccursAt(line, tok, p)

\* 1 + the number of lines strictly between a and b that are neither blank
\* nor comment lines
SemanticDistance(ls, cl, a, b) ==
    1 + Cardinality({ m \in 0..(Len(ls) - 1) :
                        /\ (a < m /\ m < b) \/ (b < m /\ m < a)
                        /\ ~IsBlank(LineAt(ls, m))
                        /\ m \notin cl })

Range(s) == {s[p] : p \in 1..Len(s)}

\* the lines of `file` that are not comment lines and carry the marker tok
MarkerLines(tok, file, cl) ==
    IF file.readable
    THEN { m \in 0..(Len(file.content) - 1) :
             m \notin cl /\ HasMarker(tok, LineAt(file.content, m)) }
    ELSE {}

\* scanned file fp: its lines, its comment lines as classified, its markers
Facts(fp) ==
    LET file == files_to_scan[fp]
        cl == _compute_comment_lines(file.content)
    IN  [ls |-> file.content, cl |-> cl,
         beans |-> MarkerLines(BEAN, file, cl),
         combs |-> MarkerLines(COMB, file, cl)]

InWindow(F, c, b) == SemanticDistance(F.ls, F.cl, c, b) <= PairingWindow

Scanned == 1..Len(files_to_scan)

\* the @Bean markers of file fp the bean loop has already handled
Processed(fp, F) ==
    IF fp < f THEN F.beans
    ELSE IF fp = f /\ pc = "beans" THEN { bean_indices[q] : q \in 1..(k - 1) }
    ELSE {}

PairsOf(fp) == { p \in pairs : p[1] = fp }
UnmatchedOf(fp) == { u[2] : u \in { q \in Range(beans_without_comb) : q[1] = fp } }

\* the satisfies marker c was consumed by a bean before bean b; P = PairsOf(fp)
UsedBefore(P, c, b) == \E q \in P : q[3] = c /\ q[2] < b

OneScannedFile == Len(files_to_scan) = 1 /\ files_to_scan[1].readable

-----------------------------------------------------------------------------
(* C1: within one file no @ConditionalOnMissingBean line index is paired   *)
(* with two different @Bean markers; the markers consumed so far in the    *)
(* file at hand are exactly used_combs, which the candidates of every      *)
(* later @Bean exclude.                                                    *)
PairingNeverReusesSatisfiesMarker ==
    /\ \A p \in pairs, q \in pairs :
          (p[1] = q[1] /\ p[3] = q[3]) => p[2] = q[2]
    /\ pc = "beans" => used_combs = { p[3] : p \in PairsOf(f) }

\* a @Bean was reported unmatched although a satisfies marker inside its
\* window exists: that marker had been consumed by an earlier @Bean
ReuseRefused ==
    /\ pc = "done"
    /\ OneScannedFile
    /\ LET F == Facts(1)
       IN  \E b \in UnmatchedOf(1) : \E p \in pairs : InWindow(F, p[3], b)

(* C2: every @Bean handled so far is either paired with exactly one        *)
(* @ConditionalOnMissingBean of its file at effective distance <= 5, or    *)
(* reported unmatched, never both; it is unmatched only if every satisfies *)
(* marker inside its window had been consumed by an earlier @Bean.  With   *)
(* one marker of each kind the check passes iff at most 4 lines strictly   *)
(* between them are neither blank nor comment.                             *)
EveryBeanPairedInWindowOrUnmatched ==
    /\ \A fp \in Scanned :
          LET F == Facts(fp)
              done == Processed(fp, F)
              P == PairsOf(fp)
          IN  /\ \A b \in done :
                    LET mine == { p \in P : p[2] = b }
                        unmatched ==
                            Cardinality({ q \in 1..Len(beans_without_comb) :
                                            beans_without_comb[q] = <<fp, b>> })
                    IN  \/ /\ Cardinality(mine) = 1
                           /\ unmatched = 0
                           /\ \A p \in mine :
                                 p[3] \in F.combs /\ InWindow(F, p[3], b)
                        \/ /\ mine = {}
                           /\ unmatched = 1
                           /\ \A c \in F.combs :
                                 InWindow(F, c, b) => UsedBefore(P, c, b)
              /\ { p[2] : p \in P } \cup UnmatchedOf(fp) \subseteq done
    /\ \A p \in pairs : p[1] \in Scanned
    /\ \A u \in Range(beans_without_comb) : u[1] \in Scanned
    /\ (pc = "done" /\ OneScannedFile) =>
          LET F == Facts(1)
          IN  (Cardinality(F.beans) = 1 /\ Cardinality(F.combs) = 1) =>
                  \A b \in F.beans, c \in F.combs :
                      passed <=>
                          (SemanticDistance(F.ls, F.cl, c, b) - 1
                               <= PairingWindow - 1)

\* one marker of each kind, four code lines and at least one blank or comment
\* line between them: the pair is made across more than five raw lines
PairedAcrossSkippedLines ==
    /\ pc = "done"
    /\ OneScannedFile
    /\ passed
    /\ LET F == Facts(1)
       IN  \E p \in pairs :
              /\ F.beans = {p[2]} /\ F.combs = {p[3]}
              /\ SemanticDistance(F.ls, F.cl, p[3], p[2]) = PairingWindow
              /\ Abs(p[3] - p[2]) > PairingWindow

(* C3: the pairer is greedy-nearest.  The @Bean markers are handled in     *)
(* ascending line order, and each pair made took, among the satisfies      *)
(* markers of the file inside the window and not consumed by an earlier    *)
(* @Bean, one of smallest raw line distance, which is in used_combs from   *)
(* then on.                                                                *)
GreedyNearest ==
    /\ \A fp \in Scanned :
          LET F == Facts(fp)
              P == PairsOf(fp)
          IN  \A p \in P :
                  \A d \in F.combs :
                      (InWindow(F, d, p[2]) /\ ~UsedBefore(P, d, p[2]))
                          => Abs(p[3] - p[2]) <= Abs(d - p[2])
    /\ pc = "beans" =>
          /\ \A q \in 1..(Len(bean_indices) - 1) :
                bean_indices[q] < bean_indices[q + 1]
          /\ { p[2] : p \in PairsOf(f) } \cup UnmatchedOf(f)
               = { bean_indices[q] : q \in 1..(k - 1) }
          /\ { p[3] : p \in PairsOf(f) } \subseteq used_combs

\* a pair was made with the nearer of two unused markers inside the window,
\* the farther one standing earlier in the file
NearerOfTwoTaken ==
    /\ pc = "done"
    /\ OneScannedFile
    /\ LET F == Facts(1)
       IN  \E p \in pairs :
              \E d \in F.combs :
                  /\ InWindow(F, d, p[2])
                  /\ ~UsedBefore(pairs, d, p[2])
                  /\ d < p[3]
                  /\ Abs(d - p[2]) > Abs(p[3] - p[2])

\* some one-to-one assignment inside the window pairs every @Bean of the file
HasPerfectAssignment(F) ==
    \E g \in [F.beans -> F.combs] :
        /\ \A b1 \in F.beans, b2 \in F.beans : g[b1] = g[b2] => b1 = b2
        /\ \A b \in F.beans : InWindow(F, g[b], b)

(* C4: the greedy pairing is sound but not optimal.  A passing check means *)
(* every file has a one-to-one assignment inside the window that pairs all *)
(* its @Bean markers, and any @Bean the pairer leaves unmatched fails the  *)
(* check, also on a file where such an assignment exists.                  *)
GreedyUnmatchedFailsCheck ==
    pc = "done" =>
        /\ passed => \A fp \in Scanned : HasPerfectAssignment(Facts(fp))
        /\ beans_without_comb # <<>> => ~passed

\* a file where a perfect assignment exists and the pairer leaves a @Bean
\* unmatched: the check fails
GreedyMissesPerfectAssignment ==
    /\ pc = "done"
    /\ OneScannedFile
    /\ beans_without_comb # <<>>
    /\ ~passed
    /\ HasPerfectAssignment(Facts(1))

RECURSIVE IsolatedUnmatched(_, _, _)
\* the @Bean markers of `todo` left unmatched when the file is paired on its
\* own: lowest @Bean first, each taking the nearest unused marker in its
\* window, the lower line index on a tie
IsolatedUnmatched(F, todo, used) ==
    IF todo = {} THEN {}
    ELSE LET b == CHOOSE x \in todo : \A y \in todo : x <= y
             open == { c \in F.combs \ used : InWindow(F, c, b) }
         IN  IF open = {}
             THEN {b} \cup IsolatedUnmatched(F, todo \ {b}, used)
             ELSE LET c == CHOOSE x \in open : \A y \in open :
                               \/ Abs(x - b) < Abs(y - b)
                               \/ Abs(x - b) = Abs(y - b) /\ x <= y
                  IN  IsolatedUnmatched(F, todo \ {b}, used \cup {c})

(* C10: the check passes iff at least one @Bean marker is found over all   *)
(* scanned files and no file, paired on its own, leaves a @Bean unmatched; *)
(* markers on comment lines count as neither kind.                         *)
PassesIffBeansFoundAndAllPairedPerFile ==
    pc = "done" =>
        /\ \A fp \in Scanned :
              LET F == Facts(fp)
              IN  UnmatchedOf(fp) = IsolatedUnmatched(F, F.beans, {})
        /\ LET found == { fp \in Scanned : Facts(fp).beans # {} }
               failing == { fp \in Scanned : UnmatchedOf(fp) # {} }
           IN  passed <=> (found # {} /\ failing = {})

\* two files, three @Bean, one file with a surplus satisfies marker and the
\* other with a @Bean left unmatched: the check fails
SurplusInOtherFileDoesNotHelp ==
    /\ pc = "done"
    /\ Len(files_to_scan) = 2
    /\ total_beans = 3
    /\ Len(beans_without_comb) = 1
    /\ ~passed
    /\ \E fp \in Scanned :
          LET F == Facts(fp)
          IN  Cardinality(F.combs) > Cardinality(F.beans)

-----------------------------------------------------------------------------
(* Calls of _effective_distance: every list of at most MaxDistLines lines  *)
(* drawn from DistShapes, every set of comment line indices, every pair of *)
(* line indices.                                                           *)

MaxDistLines == 4

DistShapes == { <<>>, <<WS>>, <<WS, "x">> }

InitDistance ==
    /\ pc = "distance"
    /\ lines \in SeqsUpTo(DistShapes, MaxDistLines)
    /\ comment_lines \in SUBSET (0..(Len(lines) - 1))
    /\ ClassifierIdle
    /\ PairerIdle
    /\ DistanceIdle
    /\ ScorecardIdle

\* one call `_effective_distance(a, b, lines, comment_lines)`
MeasureDistance ==
    /\ pc = "distance"
    /\ \E a \in 0..(Len(lines) - 1), b \in 0..(Len(lines) - 1) :
          /\ dist_a' = a
          /\ dist_b' = b
          /\ dist' = _effective_distance(a, b, lines, comment_lines)
    /\ pc' = "measured"
    /\ UNCHANGED scorecardVars
    /\ UNCHANGED <<classifierVars, pairerVars>>

NextDistance == MeasureDistance

SpecDistance == InitDistance /\ [][NextDistance]_vars

(* C5: _effective_distance(a, b, lines, comment_lines) is 1 plus the       *)
(* number of line indices strictly between min(a, b) and max(a, b) whose   *)
(* line is neither blank nor in comment_lines; it is the same for (b, a),  *)
(* and it is 1 for an index and itself and for adjacent lines.             *)
EffectiveDistanceCountsCodeLinesBetween ==
    pc = "measured" =>
        /\ dist = SemanticDistance(lines, comment_lines, dist_a, dist_b)
        /\ dist = _effective_distance(dist_b, dist_a, lines, comment_lines)
        /\ Abs(dist_a - dist_b) <= 1 => dist = 1

\* a call with a > b over code lines and skipped lines
DistanceMeasuredBackwards ==
    /\ pc = "measured"
    /\ dist_a > dist_b + 2
    /\ dist >= 2
    /\ dist < dist_a - dist_b
    /\ \E m \in (dist_b + 1)..(dist_a - 1) :
          m \notin comment_lines /\ IsBlank(LineAt(lines, m))

-----------------------------------------------------------------------------
(* Vocabulary of the classifier's properties.                              *)

Trimmed(ls, idx) == Strip(LineAt(ls, idx))

StartsLineComment(t) == StartsWith(t, SLASH_SLASH)
StartsContinuation(t) == StartsWith(t, STAR) /\ ~StartsWith(t, STAR_SLASH)
StartsBlock(t) == StartsWith(t, SLASH_STAR)
HoldsOpen(t) == Contains(t, SLASH_STAR)
HoldsClose(t) == Contains(t, STAR_SLASH)

\* zero-based position of the first "/*" of t
FirstOpen(t) ==
    CHOOSE j \in 0..Len(t) :
        OccursAt(t, SLASH_STAR, j) /\ \A q \in 0..(j - 1) : ~OccursAt(t, SLASH_STAR, q)

\* the double quotes among the first n characters of t that no backslash
\* immediately precedes
UnescapedQuotes(t, n) ==
    Cardinality({ p \in 1..n : t[p] = DQ /\ (p = 1 \/ t[p - 1] # BSL) })

\* the first "/*" of t follows an odd number of unescaped double quotes
OpenInsideString(t) ==
    HoldsOpen(t) /\ UnescapedQuotes(t, FirstOpen(t)) % 2 = 1

\* "/*" after other text, on a line that is no // or * comment line
OpenAfterText(t) ==
    /\ ~StartsLineComment(t) /\ ~StartsContinuation(t) /\ ~StartsBlock(t)
    /\ HoldsOpen(t)

\* the line opens a block comment that is still open at its end
LeavesBlockOpen(t) ==
    /\ ~StartsLineComment(t) /\ ~StartsContinuation(t)
    /\ HoldsOpen(t) /\ ~OpenInsideString(t)
    /\ ~HoldsClose(t)

\* scanning top to bottom, line idx is reached with a block comment open
WithinOpenBlock(ls, idx) ==
    \E j \in 0..(idx - 1) :
        /\ LeavesBlockOpen(Trimmed(ls, j))
        /\ \A m \in (j + 1)..(idx - 1) : ~HoldsClose(Trimmed(ls, m))

\* line idx is reached outside a block comment and has code text followed
\* by a block-open token that is not inside a string literal
CodeThenOpen(ls, idx) ==
    /\ ~WithinOpenBlock(ls, idx)
    /\ OpenAfterText(Trimmed(ls, idx))
    /\ ~OpenInsideString(Trimmed(ls, idx))

\* line idx is reached outside a block comment and its "/*" after other
\* text follows an odd number of unescaped double quotes
OpenInStringLiteral(ls, idx) ==
    /\ ~WithinOpenBlock(ls, idx)
    /\ OpenAfterText(Trimmed(ls, idx))
    /\ OpenInsideString(Trimmed(ls, idx))

(* C6: a line with code text followed by a block-comment-open token is not *)
(* in the comment set, and every following line up to and including the    *)
(* first line that holds the close token is (none when the opening line    *)
(* itself holds the close token).                                          *)
CodeBeforeBlockOpenStaysCode ==
    \A idx \in 0..(i - 1) :
        CodeThenOpen(lines, idx) =>
            /\ idx \notin comment_lines
            /\ \A j \in (idx + 1)..(i - 1) :
                  (\A m \in idx..(j - 1) : ~HoldsClose(Trimmed(lines, m)))
                      => j \in comment_lines

\* code /* on one line, the close token on the next, code after it
BlockOpenedAfterCodeAndClosed ==
    /\ pc = "returned"
    /\ \E idx \in 0..(Len(lines) - 3) :
          /\ CodeThenOpen(lines, idx)
          /\ ~HoldsClose(Trimmed(lines, idx))
          /\ HoldsClose(Trimmed(lines, idx + 1))
          /\ idx \notin comment_lines
          /\ idx + 1 \in comment_lines
          /\ idx + 2 \notin comment_lines

(* C7: a "/*" after other text that follows an odd number of unescaped     *)
(* double quotes opens no block comment: the line is not in the comment    *)
(* set, in_block is false after it, and the lines after it are classified  *)
(* as they are when the text starts with them.                             *)
BlockOpenInsideStringOpensNothing ==
    \A idx \in 0..(i - 1) :
        OpenInStringLiteral(lines, idx) =>
            /\ idx \notin comment_lines
            /\ i = idx + 1 => ~in_block
            /\ pc = "returned" =>
                  LET rest == _compute_comment_lines(
                                  SubSeq(lines, idx + 2, Len(lines)))
                  IN  \A j \in (idx + 1)..(Len(lines) - 1) :
                          j \in comment_lines <=> (j - idx - 1) \in rest

\* a string literal holding an escaped quote and "/*", then a code line
StringWithBlockOpenThenCode ==
    /\ pc = "returned"
    /\ \E idx \in 0..(Len(lines) - 2) :
          /\ OpenInStringLiteral(lines, idx)
          /\ Contains(Trimmed(lines, idx), ESCAPED_QUOTE)
          /\ idx \notin comment_lines
          /\ idx + 1 \notin comment_lines

(* C8: of the lines scanned so far, the comment set holds exactly those    *)
(* reached with a block comment open, those starting with "/*", those      *)
(* starting with "//" and those starting with "*" but not with "*/".       *)
CommentSetIsExactlyBlockLineAndContinuation ==
    /\ comment_lines \subseteq 0..(i - 1)
    /\ \A idx \in 0..(i - 1) :
          LET t == Trimmed(lines, idx)
          IN  idx \in comment_lines <=>
                  \/ WithinOpenBlock(lines, idx)
                  \/ StartsBlock(t)
                  \/ StartsLineComment(t)
                  \/ StartsContinuation(t)

\* a returned set that holds a line only because a block is open over it and
\* leaves out a line starting with "*/" outside any block
BlockBodyInSetCloseOutsideBlockNot ==
    /\ pc = "returned"
    /\ \E idx \in comment_lines :
          LET t == Trimmed(lines, idx)
          IN  ~StartsBlock(t) /\ ~StartsLineComment(t) /\ ~StartsContinuation(t)
    /\ \E idx \in 0..(Len(lines) - 1) :
          /\ idx \notin comment_lines
          /\ StartsWith(Trimmed(lines, idx), STAR_SLASH)

(* C9: in_block follows the delimiters.  A line starting with "/*" reached *)
(* outside a block is a comment line and leaves the block open iff it      *)
(* holds no "*/"; a line reached inside a block is a comment line and      *)
(* leaves the block open iff it holds no "*/".                             *)
InBlockFollowsDelimiters ==
    [][ (pc = "scan" /\ i < Len(lines) /\ i' = i + 1) =>
            LET t == Trimmed(lines, i)
            IN  (in_block \/ StartsBlock(t)) =>
                    /\ i \in comment_lines'
                    /\ in_block' <=> ~HoldsClose(t) ]_vars

\* a block opened by a line starting with "/*", kept open by the next line
\* and closed by the third
BlockOpenedKeptAndClosed ==
    /\ pc = "scan"
    /\ i = 3
    /\ StartsBlock(Trimmed(lines, 0))
    /\ ~HoldsClose(Trimmed(lines, 0))
    /\ ~HoldsClose(Trimmed(lines, 1))
    /\ HoldsClose(Trimmed(lines, 2))
    /\ {0, 1, 2} \subseteq comment_lines
    /\ ~in_block

-----------------------------------------------------------------------------
(* Specification of the result dataclasses: a VerifyResult whose lists     *)
(* are built and changed by its holder, and whose properties are read.     *)

MaxScorePhases == 2
MaxScoreChecks == 3

\* weights of a CheckResult, in units of 0.05 (0.0, 0.05, 0.15)
ScoreWeights == {0, 1, 3}

CheckCount(phases) == Len(AllChecks(phases))

InitScore ==
    /\ pc = "result"
    /\ result = <<>>
    /\ accessed = NoAccess
    /\ score_value = ZeroScore
    /\ flag_value = FALSE
    /\ lines = <<>> /\ comment_lines = {}
    /\ ClassifierIdle
    /\ PairerIdle
    /\ DistanceIdle
    /\ RunIdle

\* the lists changed: nothing read since
Unread ==
    /\ accessed' = NoAccess
    /\ score_value' = ZeroScore
    /\ flag_value' = FALSE

\* phases.append(PhaseResult(..., checks=[]))
AddPhase ==
    /\ pc = "result"
    /\ Len(result) < MaxScorePhases
    /\ result' = Append(result, PhaseResult(Len(result) + 1, <<>>))
    /\ Unread
    /\ UNCHANGED <<pc, classifierVars, pairerVars, distanceVars, runVars>>

\* checks.append(CheckResult(...)) on one of the phases
AddCheck ==
    /\ pc = "result"
    /\ CheckCount(result) < MaxScoreChecks
    /\ \E p \in 1..Len(result), b \in BOOLEAN, w \in ScoreWeights :
          result' = [result EXCEPT ![p].checks =
                        Append(@, CheckResult("dimension", b, "", w, p))]
    /\ Unread
    /\ UNCHANGED <<pc, classifierVars, pairerVars, distanceVars, runVars>>

\* c.passed = not c.passed on one of the checks
SetPassed ==
    /\ pc = "result"
    /\ \E p \in 1..Len(result) :
          \E c \in 1..Len(result[p].checks) :
              result' = [result EXCEPT ![p].checks[c].passed = ~@]
    /\ Unread
    /\ UNCHANGED <<pc, classifierVars, pairerVars, distanceVars, runVars>>

\* phase.score
ReadScore ==
    /\ pc = "result"
    /\ \E p \in 1..Len(result) :
          /\ accessed' = [prop |-> "score", phase |-> p]
          /\ score_value' = score(result[p].checks)
    /\ flag_value' = FALSE
    /\ UNCHANGED <<pc, result, classifierVars, pairerVars, distanceVars, runVars>>

\* result.overall_score
ReadOverallScore ==
    /\ pc = "result"
    /\ accessed' = [prop |-> "overall_score", phase |-> 0]
    /\ score_value' = overall_score(result)
    /\ flag_value' = FALSE
    /\ UNCHANGED <<pc, result, classifierVars, pairerVars, distanceVars, runVars>>

\* phase.all_passed
ReadAllPassed ==
    /\ pc = "result"
    /\ \E p \in 1..Len(result) :
          /\ accessed' = [prop |-> "all_passed", phase |-> p]
          /\ flag_value' = all_passed(result[p].checks)
    /\ score_value' = ZeroScore
    /\ UNCHANGED <<pc, result, classifierVars, pairerVars, distanceVars, runVars>>

\* result.all_passed
ReadOverallAllPassed ==
    /\ pc = "result"
    /\ accessed' = [prop |-> "VerifyResult.all_passed", phase |-> 0]
    /\ flag_value' = VerifyResult_all_passed(result)
    /\ score_value' = ZeroScore
    /\ UNCHANGED <<pc, result, classifierVars, pairerVars, distanceVars, runVars>>

NextScore ==
    \/ AddPhase \/ AddCheck \/ SetPassed
    \/ ReadScore \/ ReadOverallScore \/ ReadAllPassed \/ ReadOverallAllPassed

SpecScore == InitScore /\ [][NextScore]_vars

\* the checks in the scope of the property read last, as <<phase, position>>
ScopeOf(R, acc) ==
    { pos \in (1..Len(R)) \X (1..CheckCount(R)) :
        /\ pos[2] <= Len(R[pos[1]].checks)
        /\ acc.phase \in {0, pos[1]} }

PassingIn(R, S) == { pos \in S : R[pos[1]].checks[pos[2]].passed }

RECURSIVE WeightOver(_, _)
WeightOver(R, S) ==
    IF S = {} THEN 0
    ELSE LET pos == CHOOSE pos \in S : TRUE
         IN  R[pos[1]].checks[pos[2]].weight + WeightOver(R, S \ {pos})

(* C11: a score read is (weight of the passing checks) / (weight of all    *)
(* checks in scope) x 100, is exactly 0 and no division error when that    *)
(* denominator is 0, and lies in 0..100.                                   *)
ScoreIsWeightedPercentage ==
    accessed.prop \in {"score", "overall_score"} =>
        LET scope == ScopeOf(result, accessed)
            all_weight == WeightOver(result, scope)
            passing_weight == WeightOver(result, PassingIn(result, scope))
        IN  /\ ~score_value.raised
            /\ score_value.den > 0
            /\ all_weight = 0 => score_value.num = 0
            /\ score_value.num * all_weight
                   = passing_weight * 100 * score_value.den
            /\ 0 <= score_value.num
            /\ score_value.num <= 100 * score_value.den

\* an overall score of 25: weight 0.05 passing out of 0.20 over two phases
QuarterOfWeightPassing ==
    /\ accessed.prop = "overall_score"
    /\ Len(result) = 2
    /\ result[1].checks # <<>> /\ result[2].checks # <<>>
    /\ score_value = [raised |-> FALSE, num |-> 25, den |-> 1]

(* C12: all_passed of a phase is the AND of the passed flags of its        *)
(* checks, all_passed of the result the AND over all its phases, each as   *)
(* the lists stand when it is read.                                        *)
AllPassedIsConjunction ==
    /\ accessed.prop = "all_passed" =>
          (flag_value <=>
              \A c \in 1..Len(result[accessed.phase].checks) :
                  result[accessed.phase].checks[c].passed)
    /\ accessed.prop = "VerifyResult.all_passed" =>
          (flag_value <=>
              \A p \in 1..Len(result) :
                  \A c \in 1..Len(result[p].checks) :
                      result[p].checks[c].passed)

\* the only failing check is the last check of the last phase
SingleFailingCheckFailsResult ==
    /\ accessed.prop = "VerifyResult.all_passed"
    /\ ~flag_value
    /\ Len(result) = 2
    /\ result[1].checks # <<>>
    /\ Len(result[2].checks) = 2
    /\ Cardinality(ScopeOf(result, accessed)
                       \ PassingIn(result, ScopeOf(result, accessed))) = 1
    /\ ~result[2].checks[2].passed

-----------------------------------------------------------------------------
(* The tables PHASES and DIMENSIONS.  Weights are in units of 0.05.        *)

PHASES == {1, 2, 3, 4, 5}

Dimension(key, phase, weight) == [key |-> key, phase |-> phase, weight |-> weight]

\* the dict DIMENSIONS, in insertion order
DIMENSIONS ==
    << Dimension("package_structure", 1, 2),
       Dimension("modulith_marker", 1, 2),
       Dimension("ci_pipeline", 1, 1),
       Dimension("core_isolation", 2, 3),
       Dimension("port_interfaces", 2, 2),
       Dimension("domain_test_coverage", 2, 2),
       Dimension("bridge_configs", 3, 1),
       Dimension("adapter_integration_tests", 3, 2),
       Dimension("conditional_on_missing_bean", 4, 1),
       Dimension("feature_flags_default", 4, 1),
       Dimension("auto_config_meta_inf", 4, 1),
       Dimension("context_runner_tests", 4, 1),
       Dimension("angular_standalone_onpush", 5, 1) >>

\* the keys k for which ScorecardChecker has a method check_<k>
CheckMethods == { DIMENSIONS[d].key : d \in 1..Len(DIMENSIONS) }

\* hasattr(ScorecardChecker, f"check_{dim_key}")
HasMethod(dim_key) == dim_key \in CheckMethods

\* validation that accepts every table
ValidationNeverRaises(table) == FALSE

\* _validate_dimension_methods raises AttributeError
ValidationRaises(table) ==
    \E d \in 1..Len(table) : ~HasMethod(table[d].key)

\* the dimensions of a phase, last declared first
DimsOfPhaseReversed(table, phase) ==
    LET InPhase(dim) == dim.phase = phase
        dims == SelectSeq(table, InPhase)
    IN  [n \in 1..Len(dims) |-> dims[Len(dims) + 1 - n]]

\* {k: v for k, v in DIMENSIONS.items() if v["phase"] == phase_num}
DimsOfPhase(table, phase) ==
    LET InPhase(dim) == dim.phase = phase
    IN  SelectSeq(table, InPhase)

\* DIMENSIONS[key], of the table in force
DimInfo(table, key) ==
    LET d == CHOOSE d \in 1..Len(table) : table[d].key = key
    IN  table[d]

-----------------------------------------------------------------------------
(* A root directory and the entries below it, in the order a recursive     *)
(* walk (Path.rglob) yields them.  The path of an entry is the sequence of *)
(* its segments relative to the root.                                      *)

DirEntry(path) == [path |-> path, is_dir |-> TRUE, file |-> Unreadable]
FileEntry(path, file) == [path |-> path, is_dir |-> FALSE, file |-> file]

Root(entries) == [exists |-> TRUE, entries |-> entries]

\* Path.name
NameOf(path) == path[Len(path)]

IsPrefix(p, q) == Len(p) <= Len(q) /\ SubSeq(q, 1, Len(p)) = p

\* fnmatch of a name against the patterns the evaluators use
GlobMatch(pattern, name) ==
    CASE pattern = "*.java" ->
             name \in {"App.java", "Port.java", "Impl.java", "FooTest.java",
                       "ModulithStructureTest.java", "FooConfiguration.java",
                       "FooCoreAutoConfiguration.java"}
      [] pattern = "*Test.java" ->
             name \in {"FooTest.java", "ModulithStructureTest.java"}
      [] pattern = "*ModulithStructureTest*.java" ->
             name = "ModulithStructureTest.java"
      [] pattern = "*Configuration.java" ->
             name \in {"FooConfiguration.java", "FooCoreAutoConfiguration.java"}
      [] pattern = "*CoreAutoConfiguration.java" ->
             name = "FooCoreAutoConfiguration.java"
      [] pattern = "*.yml" -> name = "build.yml"
      [] pattern = "*.yaml" -> name = "build.yaml"
      [] pattern = "*.component.ts" -> name = "foo.component.ts"
      [] OTHER -> name = pattern

\* dir.rglob(pattern): the matching entries at any depth below dir
RGlob(root, dir, pattern) ==
    LET Hit(e) == /\ IsPrefix(dir, e.path) /\ Len(e.path) > Len(dir)
                  /\ GlobMatch(pattern, NameOf(e.path))
    IN  IF root.exists THEN SelectSeq(root.entries, Hit) ELSE <<>>

\* dir.glob(pattern): the matching entries directly in dir
Glob(root, dir, pattern) ==
    LET Hit(e) == /\ IsPrefix(dir, e.path) /\ Len(e.path) = Len(dir) + 1
                  /\ GlobMatch(pattern, NameOf(e.path))
    IN  IF root.exists THEN SelectSeq(root.entries, Hit) ELSE <<>>

\* the result of a lookup: a directory, or None
NotFound == [found |-> FALSE, path |-> <<>>]
Found(path) == [found |-> TRUE, path |-> path]

RECURSIVE SortedByParts(_)
\* sorted(s, key=lambda p: len(p.parts)): stable, ascending
SortedByParts(s) ==
    IF s = <<>> THEN <<>>
    ELSE LET init == SortedByParts(SubSeq(s, 1, Len(s) - 1))
             c == s[Len(s)]
             n == Cardinality({p \in 1..Len(init) :
                                  Len(init[p].path) <= Len(c.path)})
         IN  SubSeq(init, 1, n) \o <<c>> \o SubSeq(init, n + 1, Len(init))

\* WalkTree taking the first match of the walk, unsorted
WalkTreeFirstMatch(root, package_name) ==
    LET IsDir(e) == e.is_dir /\ NameOf(e.path) = package_name
        candidates == SelectSeq(RGlob(root, <<>>, package_name), IsDir)
    IN  IF candidates # <<>> THEN Found(candidates[1].path) ELSE NotFound

\* the walk of _find_package_dir / _find_test_package_dir: candidates[0] of
\* the sorted directory matches, None when there is none or the walk raises
WalkTree(root, package_name) ==
    LET IsDir(e) == e.is_dir /\ NameOf(e.path) = package_name
        candidates == SortedByParts(
                          SelectSeq(RGlob(root, <<>>, package_name), IsDir))
    IN  IF candidates # <<>> THEN Found(candidates[1].path) ELSE NotFound

\* `if package_name in self._pkg_cache`
CacheHit(cache, package_name) == package_name \in DOMAIN cache

\* StoreResult keeping None results out of the cache
StoreResultIfFound(cache, package_name, res) ==
    IF res.found
    THEN [n \in DOMAIN cache \cup {package_name} |->
              IF n = package_name THEN res ELSE cache[n]]
    ELSE cache

\* `self._pkg_cache[package_name] = result`
StoreResult(cache, package_name, res) ==
    [n \in DOMAIN cache \cup {package_name} |->
        IF n = package_name THEN res ELSE cache[n]]

\* the value _find_package_dir returns, given the cache and the root
FindDir(cache, root, package_name) ==
    IF CacheHit(cache, package_name) THEN cache[package_name]
    ELSE WalkTree(root, package_name)

\* the cache after _find_package_dir(package_name)
CacheAfter(cache, root, package_name) ==
    IF CacheHit(cache, package_name) THEN cache
    ELSE StoreResult(cache, package_name, WalkTree(root, package_name))

RECURSIVE CacheAfterAll(_, _, _)
\* the cache after the lookups of names, in order
CacheAfterAll(cache, root, names) ==
    IF names = <<>> THEN cache
    ELSE CacheAfterAll(CacheAfter(cache, root, names[1]), root, Tail(names))

RECURSIVE WalksOf(_, _, _)
\* the names, in order, whose lookup walks the tree
WalksOf(cache, root, names) ==
    IF names = <<>> THEN <<>>
    ELSE (IF CacheHit(cache, names[1]) THEN <<>> ELSE <<names[1]>>)
         \o WalksOf(CacheAfter(cache, root, names[1]), root, Tail(names))

-----------------------------------------------------------------------------
(* The evaluators check_<key>.  Each is given the caches as they stand     *)
(* when it is called and yields its CheckResult together with the names    *)
(* it looks up under the main and under the test source root, in order.    *)
(* A detail string is held as its fixed text, the numbers and the names    *)
(* formatted into it.                                                      *)

Detail(text, nums, items) == [text |-> text, nums |-> nums, items |-> items]

\* Op(value), value being worked out once: a local variable of the code
Once(value, Op(_)) == CHOOSE r \in {Op(v) : v \in {value}} : TRUE

Evaluated(key, table, is_passed, detail, main_names, test_names) ==
    [check |-> CheckResult(key, is_passed, detail,
                           DimInfo(table, key).weight, DimInfo(table, key).phase),
     main |-> main_names, test |-> test_names]

\* `tok in content` for a readable file
Mentions(file, tok) ==
    file.readable /\ \E l \in 1..Len(file.content) : Contains(file.content[l], tok)

\* the names of the entries, in order
NamesOf(entries) == [e \in 1..Len(entries) |-> NameOf(entries[e].path)]

\* the names of pkgs that are found / not found by _find_package_dir
FoundAmong(cache, root, pkgs) ==
    LET Hit(pkg) == FindDir(cache, root, pkg).found
    IN  SelectSeq(pkgs, Hit)
MissingAmong(cache, root, pkgs) ==
    LET Miss(pkg) == ~FindDir(cache, root, pkg).found
    IN  SelectSeq(pkgs, Miss)

\* check_package_structure with the optional packages required as well
PackageStructureRequiringOptional(P, table, cache, test_cache) ==
    LET required == <<"core", "persistence", "rest">>
        optional == <<"events", "autoconfigure">>
        found == FoundAmong(cache, P.main, required \o optional)
        missing == MissingAmong(cache, P.main, required \o optional)
        is_passed == Len(missing) = 0
    IN  Evaluated("package_structure", table, is_passed,
                  IF is_passed THEN Detail("{found}/", <<>>, found)
                  ELSE Detail("Missing: {missing}", <<>>, missing),
                  required \o optional, <<>>)

check_package_structure(P, table, cache, test_cache) ==
    LET required == <<"core", "persistence", "rest">>
        optional == <<"events", "autoconfigure">>
        found == FoundAmong(cache, P.main, required)
                     \o FoundAmong(cache, P.main, optional)
        missing == MissingAmong(cache, P.main, required)
        is_passed == Len(missing) = 0
    IN  Evaluated("package_structure", table, is_passed,
                  IF is_passed THEN Detail("{found}/", <<>>, found)
                  ELSE Detail("Missing: {missing}", <<>>, missing),
                  required \o optional, <<>>)

check_modulith_marker(P, table, cache, test_cache) ==
    LET HasMarker_(e) == Mentions(e.file, <<"@Modulithic">>)
        markers == SelectSeq(RGlob(P.main, <<>>, "*.java"), HasMarker_)
        marker_found == markers # <<>>
        marker_file == IF marker_found THEN <<NameOf(markers[1].path)>> ELSE <<>>
        test_found == RGlob(P.test, <<>>, "*ModulithStructureTest*.java") # <<>>
        is_passed == marker_found /\ test_found
    IN  Evaluated("modulith_marker", table, is_passed,
                  IF is_passed
                  THEN Detail("{marker_file} with @Modulithic", <<>>, marker_file)
                  ELSE IF marker_found
                  THEN Detail("{marker_file} found, but ModulithStructureTest missing",
                              <<>>, marker_file)
                  ELSE IF test_found
                  THEN Detail("ModulithStructureTest found, but no @Modulithic marker",
                              <<>>, <<>>)
                  ELSE Detail("Neither @Modulithic marker nor ModulithStructureTest found",
                              <<>>, <<>>),
                  <<>>, <<>>)

\* RepoDetector.ci_paths, relative to the target directory
ci_paths == << <<".azure", "pipelines">>, <<".github", "workflows">> >>

IsDirectory(root, path) ==
    root.exists /\ \E e \in 1..Len(root.entries) :
                       root.entries[e].path = path /\ root.entries[e].is_dir

IsFile(root, path) ==
    root.exists /\ \E e \in 1..Len(root.entries) :
                       root.entries[e].path = path /\ ~root.entries[e].is_dir

RECURSIVE CiFilesFrom(_, _)
CiFilesFrom(root, d) ==
    IF d > Len(ci_paths) THEN <<>>
    ELSE (IF IsDirectory(root, ci_paths[d])
          THEN NamesOf(Glob(root, ci_paths[d], "*.yml"))
                   \o NamesOf(Glob(root, ci_paths[d], "*.yaml"))
          ELSE <<>>)
         \o CiFilesFrom(root, d + 1)

check_ci_pipeline(P, table, cache, test_cache) ==
    LET found_files == CiFilesFrom(P.ci, 1)
        is_passed == Len(found_files) > 0
    IN  Evaluated("ci_pipeline", table, is_passed,
                  IF is_passed THEN Detail("{found_files}", <<>>, found_files)
                  ELSE Detail("No CI pipeline files found", <<>>, <<>>),
                  <<>>, <<>>)

-----------------------------------------------------------------------------
(* Forbidden imports.  An import path is a sequence of pieces of text; the *)
(* pieces are cut so that every prefix of the two lists is a whole number  *)
(* of pieces.                                                              *)

OSF == "org.springframework."

FORBIDDEN_CORE_IMPORTS ==
    << <<"jakarta.persistence">>, <<OSF, "data">>, <<OSF, "web">>,
       <<OSF, "stereotype">>, <<OSF, "boot">>, <<OSF, "context">>,
       <<OSF, "beans">> >>

ALLOWED_CORE_IMPORTS ==
    << <<OSF, "transaction", ".annotation.Transactional">>, <<OSF, "modulith">> >>

RECURSIVE StartsWithAny(_, _)
\* the loop `for p in prefixes: if import_path.startswith(p): return ...`
StartsWithAny(import_path, prefixes) ==
    IF prefixes = <<>> THEN FALSE
    ELSE StartsWith(import_path, prefixes[1])
             \/ StartsWithAny(import_path, Tail(prefixes))

\* _is_forbidden_import trying only the first entry of the deny-list
IsForbiddenByFirstEntry(import_path) ==
    IF StartsWithAny(import_path, ALLOWED_CORE_IMPORTS) THEN FALSE
    ELSE StartsWith(import_path, FORBIDDEN_CORE_IMPORTS[1])

_is_forbidden_import(import_path) ==
    IF StartsWithAny(import_path, ALLOWED_CORE_IMPORTS) THEN FALSE
    ELSE IF StartsWithAny(import_path, FORBIDDEN_CORE_IMPORTS) THEN TRUE
    ELSE FALSE

RECURSIVE RStripChar(_, _)
\* str.rstrip(ch)
RStripChar(t, ch) ==
    IF t # <<>> /\ t[Len(t)] = ch THEN RStripChar(SubSeq(t, 1, Len(t) - 1), ch)
    ELSE t

\* the import path of a line, <<>> when the line is no import statement
ImportStatement(line) ==
    LET stripped == Strip(line)
    IN  IF ~StartsWith(stripped, <<"import ">>) THEN <<>>
        ELSE LET import_statement == Strip(RStripChar(Tail(stripped), ";"))
             IN  IF StartsWith(import_statement, <<"static ">>)
                 THEN Tail(import_statement)
                 ELSE import_statement

\* the violations of one file: <<path, line_num, import_statement>>
FileViolations(e) ==
    LET IsViolation(n) ==
            /\ StartsWith(Strip(e.file.content[n]), <<"import ">>)
            /\ _is_forbidden_import(ImportStatement(e.file.content[n]))
        nums == SelectSeq([n \in 1..Len(e.file.content) |-> n], IsViolation)
    IN  IF ~e.file.readable THEN <<>>
        ELSE [v \in 1..Len(nums) |->
                 [path |-> e.path, line_num |-> nums[v],
                  import_statement |-> ImportStatement(e.file.content[nums[v]])]]

RECURSIVE Concat(_)
\* the concatenation of a sequence of sequences
Concat(ss) == IF ss = <<>> THEN <<>> ELSE ss[1] \o Concat(Tail(ss))

Min(a, b) == IF a < b THEN a ELSE b

\* check_core_isolation without the early return for a missing core/
CoreIsolationUnguarded(P, table, cache, test_cache) ==
    LET core_dir == FindDir(cache, P.main, "core")
        java_files == IF core_dir.found THEN RGlob(P.main, core_dir.path, "*.java")
                      ELSE <<>>
        violations == Concat([e \in 1..Len(java_files) |->
                                 FileViolations(java_files[e])])
        is_passed == Len(violations) = 0
    IN  Evaluated("core_isolation", table, is_passed,
                  IF is_passed
                  THEN Detail("No forbidden imports in core/", <<>>, <<>>)
                  ELSE Detail("{n} violation(s): {first 3} ... (+{more} more)",
                              <<Len(violations),
                                Len(violations) - Min(3, Len(violations))>>,
                              SubSeq(violations, 1, Min(3, Len(violations)))),
                  <<"core">>, <<>>)

check_core_isolation(P, table, cache, test_cache) ==
    LET core_dir == FindDir(cache, P.main, "core")
        java_files == RGlob(P.main, core_dir.path, "*.java")
        violations == Concat([e \in 1..Len(java_files) |->
                                 FileViolations(java_files[e])])
        is_passed == Len(violations) = 0
    IN  IF ~core_dir.found
        THEN Evaluated("core_isolation", table, FALSE,
                       Detail("core/ directory not found", <<>>, <<>>),
                       <<"core">>, <<>>)
        ELSE Evaluated("core_isolation", table, is_passed,
                       IF is_passed
                       THEN Detail("No forbidden imports in core/", <<>>, <<>>)
                       ELSE Detail("{n} violation(s): {first 3} ... (+{more} more)",
                                   <<Len(violations),
                                     Len(violations) - Min(3, Len(violations))>>,
                                   SubSeq(violations, 1, Min(3, Len(violations)))),
                       <<"core">>, <<>>)

-----------------------------------------------------------------------------
(* Phase 2: port interfaces and domain tests.  The text of a file is the   *)
(* sequence of its lines; joined, the lines are separated by NL.           *)

NL == "\n"

\* the symbols the regular expressions take as \w+
WordSymbols == {"x", "Port", "Repo", "interface", "implements", "class"}
IsWord(sym) == sym \in WordSymbols
\* \s
IsSpace(sym) == sym \in {WS, NL}

RECURSIVE JoinLines(_)
\* "\n".join(lines)
JoinLines(ls) ==
    IF ls = <<>> THEN <<>>
    ELSE IF Len(ls) = 1 THEN ls[1]
    ELSE ls[1] \o <<NL>> \o JoinLines(Tail(ls))

\* \b on both sides of the symbol at position p
WordBounded(text, p) ==
    /\ (p = 1 \/ ~IsWord(text[p - 1]))
    /\ (p = Len(text) \/ ~IsWord(text[p + 1]))

\* the positions p, q of a match of \binterface\s+(\w+): q holds group 1
InterfaceMatch(text, p, q) ==
    /\ text[p] = "interface"
    /\ (p = 1 \/ ~IsWord(text[p - 1]))
    /\ q > p + 1
    /\ \A m \in (p + 1)..(q - 1) : IsSpace(text[m])
    /\ IsWord(text[q])

\* re.search(r"\binterface\s+(\w+)", code_content): group 1 of the leftmost
\* match as a one-element list, <<>> when there is no match
InterfaceName(file) ==
    LET CodeLines(comment_set) ==
            LET IsCode(n) == (n - 1) \notin comment_set
            IN  SelectSeq([n \in 1..Len(file.content) |-> n], IsCode)
        CodeContent(kept) ==
            JoinLines([n \in 1..Len(kept) |-> file.content[kept[n]]])
        Group1(code_content) ==
            LET starts == { p \in 1..Len(code_content) :
                              \E q \in 1..Len(code_content) :
                                  InterfaceMatch(code_content, p, q) }
            IN  IF starts = {} THEN <<>>
                ELSE LET p == CHOOSE p \in starts : \A o \in starts : p <= o
                         q == CHOOSE q \in 1..Len(code_content) :
                                  InterfaceMatch(code_content, p, q)
                     IN  <<code_content[q]>>
    IN  Once(CodeContent(Once(_compute_comment_lines(file.content), CodeLines)),
             Group1)

\* pattern.search(content) for rf"\bimplements\b[^{{]*\b{name}\b"
Implements(file, name) ==
    \E content \in {JoinLines(file.content)} :
        \E p \in 1..Len(content), q \in 1..Len(content) :
            /\ p < q
            /\ content[p] = "implements" /\ WordBounded(content, p)
            /\ content[q] = name /\ WordBounded(content, q)
            /\ \A m \in (p + 1)..(q - 1) : content[m] # "{"

adapter_dirs == <<"persistence", "rest", "events", "autoconfigure">>

\* the readable *.java files below the adapter directories found
AdapterContents(P, cache) ==
    LET found == FoundAmong(cache, P.main, adapter_dirs)
        IsReadable(e) == e.file.readable
    IN  Concat([d \in 1..Len(found) |->
                  SelectSeq(RGlob(P.main, FindDir(cache, P.main, found[d]).path,
                                  "*.java"), IsReadable)])

\* _find_unimplemented_ports that scans no adapter directory
UnimplementedWithoutScan(P, cache, interface_names) == interface_names

_find_unimplemented_ports(P, cache, interface_names) ==
    LET Among(adapter_contents) ==
            LET Unimplemented(name) ==
                    ~\E e \in {adapter_contents[c] : c \in 1..Len(adapter_contents)} :
                         Implements(e.file, name)
            IN  SelectSeq(interface_names, Unimplemented)
    IN  Once(AdapterContents(P, cache), Among)

\* check_port_interfaces taking every readable file of port/ for an
\* interface, without the search for a declaration
PortInterfacesByFileAlone(P, table, cache, test_cache) ==
    LET core_dir == FindDir(cache, P.main, "core")
        IsDir(e) == e.is_dir
        IsReadable(e) == e.file.readable
        port_dirs == SelectSeq(RGlob(P.main, core_dir.path, "port"), IsDir)
        interface_files ==
            NamesOf(SelectSeq(Concat([d \in 1..Len(port_dirs) |->
                                         Glob(P.main, port_dirs[d].path, "*.java")]),
                              IsReadable))
        is_passed == Len(interface_files) >= 1
    IN  IF ~core_dir.found
        THEN Evaluated("port_interfaces", table, FALSE,
                       Detail("core/ directory not found", <<>>, <<>>),
                       <<"core">>, <<>>)
        ELSE Evaluated("port_interfaces", table, is_passed,
                       IF is_passed
                       THEN Detail("{n} port interface(s): {files} ({m} non-interface file(s) in port/: {files}) [WARNING: no adapter implements {names}]",
                                   <<Len(interface_files), 0>>,
                                   <<interface_files, <<>>, <<>> >>)
                       ELSE Detail("No port interfaces found in core/port/ (files must contain 'interface' keyword)",
                                   <<>>, <<>>),
                       <<"core">>, <<>>)

check_port_interfaces(P, table, cache, test_cache) ==
    LET core_dir == FindDir(cache, P.main, "core")
        IsDir(e) == e.is_dir
        IsReadable(e) == e.file.readable
        PortFiles(port_dirs) ==
            SelectSeq(Concat([d \in 1..Len(port_dirs) |->
                                 Glob(P.main, port_dirs[d].path, "*.java")]),
                      IsReadable)
        \* per file of port/: its name and the interface it declares, if any
        Matches(files) ==
            [e \in 1..Len(files) |->
                [file_name |-> NameOf(files[e].path),
                 match |-> InterfaceName(files[e].file)]]
        Result(matches) ==
            LET Declares(m) == m.match # <<>>
                Lacks(m) == m.match = <<>>
                NameIn(ms) == [m \in 1..Len(ms) |-> ms[m].file_name]
                interface_files == NameIn(SelectSeq(matches, Declares))
                interface_names == Concat([m \in 1..Len(matches) |-> matches[m].match])
                non_interface_files == NameIn(SelectSeq(matches, Lacks))
                is_passed == Len(interface_files) >= 1
                unimplemented ==
                    IF interface_names # <<>>
                    THEN _find_unimplemented_ports(P, cache, interface_names)
                    ELSE <<>>
            IN  Evaluated("port_interfaces", table, is_passed,
                          IF is_passed
                          THEN Detail("{n} port interface(s): {files} ({m} non-interface file(s) in port/: {files}) [WARNING: no adapter implements {names}]",
                                      <<Len(interface_files), Len(non_interface_files)>>,
                                      <<interface_files, non_interface_files,
                                        unimplemented>>)
                          ELSE Detail("No port interfaces found in core/port/ (files must contain 'interface' keyword)",
                                      <<>>, <<>>),
                          <<"core">> \o (IF interface_names # <<>> THEN adapter_dirs
                                         ELSE <<>>),
                          <<>>)
    IN  IF ~core_dir.found
        THEN Evaluated("port_interfaces", table, FALSE,
                       Detail("core/ directory not found", <<>>, <<>>),
                       <<"core">>, <<>>)
        ELSE Once(Once(Once(SelectSeq(RGlob(P.main, core_dir.path, "port"), IsDir),
                            PortFiles),
                       Matches),
                  Result)

RECURSIVE SumOf(_)
\* sum of a sequence of numbers
SumOf(ns) == IF ns = <<>> THEN 0 ELSE ns[1] + SumOf(Tail(ns))

\* len(re.findall(r"@Test\b", content))
TestMethods(file) ==
    SumOf([l \in 1..Len(file.content) |-> Count(file.content[l], <<"@Test">>)])

\* check_domain_test_coverage counting files by their name alone, with or
\* without @Test methods
TestCoverageCountingEveryFile(P, table, cache, test_cache) ==
    LET core_test_dir == FindDir(test_cache, P.test, "core")
        IsReadable(e) == e.file.readable
        files == IF core_test_dir.found
                 THEN SelectSeq(RGlob(P.test, core_test_dir.path, "*Test.java"),
                                IsReadable)
                 ELSE <<>>
        test_files == NamesOf(files)
        test_file_count == Len(test_files)
        test_method_count == SumOf([e \in 1..Len(files) |-> TestMethods(files[e].file)])
        is_passed == test_file_count >= 1 /\ test_method_count >= 3
    IN  Evaluated("domain_test_coverage", table, is_passed,
                  IF is_passed
                  THEN Detail("{n} file(s), {m} @Test method(s): {files[:5]} ({k} *Test.java file(s) without @Test methods)",
                              <<test_file_count, test_method_count, 0>>,
                              SubSeq(test_files, 1, Min(5, Len(test_files))))
                  ELSE IF test_method_count > 0
                  THEN Detail("Only {m} @Test method(s) in {n} file(s) - minimum 3 required",
                              <<test_method_count, test_file_count>>, <<>>)
                  ELSE Detail("No test files with @Test methods for core domain",
                              <<>>, <<>>),
                  <<>>, <<"core">>)

check_domain_test_coverage(P, table, cache, test_cache) ==
    LET core_test_dir == FindDir(test_cache, P.test, "core")
        IsReadable(e) == e.file.readable
        files == IF core_test_dir.found
                 THEN SelectSeq(RGlob(P.test, core_test_dir.path, "*Test.java"),
                                IsReadable)
                 ELSE <<>>
        WithTests(e) == TestMethods(e.file) > 0
        Empty(e) == TestMethods(e.file) = 0
        test_files == NamesOf(SelectSeq(files, WithTests))
        empty_test_files == NamesOf(SelectSeq(files, Empty))
        test_file_count == Len(test_files)
        test_method_count == SumOf([e \in 1..Len(files) |-> TestMethods(files[e].file)])
        is_passed == test_file_count >= 1 /\ test_method_count >= 3
    IN  Evaluated("domain_test_coverage", table, is_passed,
                  IF is_passed
                  THEN Detail("{n} file(s), {m} @Test method(s): {files[:5]} ({k} *Test.java file(s) without @Test methods)",
                              <<test_file_count, test_method_count, Len(empty_test_files)>>,
                              SubSeq(test_files, 1, Min(5, Len(test_files))))
                  ELSE IF test_method_count > 0
                  THEN Detail("Only {m} @Test method(s) in {n} file(s) - minimum 3 required",
                              <<test_method_count, test_file_count>>, <<>>)
                  ELSE Detail("No test files with @Test methods for core domain",
                              <<>>, <<>>),
                  <<>>, <<"core">>)

-----------------------------------------------------------------------------
(* Phase 3: adapters.                                                      *)

adapter_packages == <<"persistence", "rest", "events">>

\* re.search(r"@Bean\b", content) holds for some readable file of the list
HasBean(config_files) ==
    \E c \in 1..Len(config_files) : Mentions(config_files[c].file, BEAN)

\* "missing", "no_bean" or "found": the outcome of one adapter package
\* BridgeOutcome that takes configuration files without @Bean for missing
BridgeOutcomeWithoutNoBean(P, cache, pkg) ==
    LET pkg_dir == FindDir(cache, P.main, pkg)
        config_files == Glob(P.main, pkg_dir.path, "*Configuration.java")
    IN  IF ~pkg_dir.found THEN "missing"
        ELSE IF HasBean(config_files) THEN "found"
        ELSE "missing"

BridgeOutcome(P, cache, pkg) ==
    LET pkg_dir == FindDir(cache, P.main, pkg)
        config_files == Glob(P.main, pkg_dir.path, "*Configuration.java")
    IN  IF ~pkg_dir.found THEN "missing"
        ELSE IF config_files = <<>> THEN "missing"
        ELSE IF HasBean(config_files) THEN "found"
        ELSE "no_bean"

\* the entry of an adapter package in `found` / `no_bean`: <<pkg, file name>>
BridgeEntry(P, cache, pkg) ==
    LET config_files == Glob(P.main, FindDir(cache, P.main, pkg).path,
                             "*Configuration.java")
        WithBean(e) == Mentions(e.file, BEAN)
    IN  IF BridgeOutcome(P, cache, pkg) = "found"
        THEN <<pkg, NameOf(SelectSeq(config_files, WithBean)[1].path)>>
        ELSE <<pkg, NameOf(config_files[1].path)>>

check_bridge_configs(P, table, cache, test_cache) ==
    LET IsFound(pkg) == BridgeOutcome(P, cache, pkg) = "found"
        IsMissing(pkg) == BridgeOutcome(P, cache, pkg) = "missing"
        IsNoBean(pkg) == BridgeOutcome(P, cache, pkg) = "no_bean"
        found_pkgs == SelectSeq(adapter_packages, IsFound)
        missing == SelectSeq(adapter_packages, IsMissing)
        no_bean_pkgs == SelectSeq(adapter_packages, IsNoBean)
        found == [n \in 1..Len(found_pkgs) |-> BridgeEntry(P, cache, found_pkgs[n])]
        no_bean == [n \in 1..Len(no_bean_pkgs) |->
                       BridgeEntry(P, cache, no_bean_pkgs[n])]
        is_passed == Len(missing) = 0 /\ Len(no_bean) = 0
    IN  Evaluated("bridge_configs", table, is_passed,
                  IF is_passed THEN Detail("{found}", <<>>, <<found>>)
                  ELSE Detail("Missing bridge config in: {missing}; No @Bean methods in: {no_bean}",
                              <<>>, <<missing, no_bean>>),
                  adapter_packages, <<>>)

adapter_modules == <<"persistence", "rest", "events">>

check_adapter_integration_tests(P, table, cache, test_cache) ==
    LET present_adapters == FoundAmong(cache, P.main, adapter_modules)
        TestsOf(mod) ==
            LET test_dir == FindDir(test_cache, P.test, mod)
            IN  IF test_dir.found
                THEN RGlob(P.test, test_dir.path, "*Test.java")
                ELSE <<>>
        Covered(mod) == TestsOf(mod) # <<>>
        Uncovered(mod) == TestsOf(mod) = <<>>
        covered == SelectSeq(present_adapters, Covered)
        missing == SelectSeq(present_adapters, Uncovered)
        all_test_names == Concat([m \in 1..Len(covered) |->
                                     NamesOf(TestsOf(covered[m]))])
        is_passed == Len(missing) = 0
    IN  IF present_adapters = <<>>
        THEN Evaluated("adapter_integration_tests", table, FALSE,
                       Detail("No adapter modules found", <<>>, <<>>),
                       adapter_modules, <<>>)
        ELSE Evaluated("adapter_integration_tests", table, is_passed,
                       IF is_passed
                       THEN Detail("{n} test(s) across {m} adapter(s): {names}",
                                   <<Len(all_test_names), Len(covered)>>,
                                   <<all_test_names>>)
                       ELSE Detail("Missing adapter tests for: {missing} (found: {names})",
                                   <<>>, <<missing, all_test_names>>),
                       adapter_modules, present_adapters)

-----------------------------------------------------------------------------
(* Phase 4: auto-configuration.                                            *)

\* files_to_scan of check_conditional_on_missing_bean
ConfigFilesToScan(P, cache) ==
    LET autoconf_dir == FindDir(cache, P.main, "autoconfigure")
        adapters == FoundAmong(cache, P.main, <<"persistence", "rest", "events">>)
    IN  (IF autoconf_dir.found
         THEN Glob(P.main, autoconf_dir.path, "*CoreAutoConfiguration.java")
         ELSE <<>>)
        \o Concat([d \in 1..Len(adapters) |->
                      Glob(P.main, FindDir(cache, P.main, adapters[d]).path,
                           "*Configuration.java")])

RECURSIVE UnmatchedFrom(_, _, _, _, _, _)
\* the loop `for bean_idx in bean_indices`: the bean indices left unmatched
UnmatchedFrom(beans, m, used, combs, ls, cl) ==
    IF m > Len(beans) THEN <<>>
    ELSE LET candidates == Candidates(beans[m], combs, used, ls, cl)
         IN  IF candidates # <<>>
             THEN UnmatchedFrom(beans, m + 1, used \cup {candidates[1]}, combs, ls, cl)
             ELSE <<beans[m]>> \o UnmatchedFrom(beans, m + 1, used, combs, ls, cl)

\* the @Bean line indices of a file, <<>> for a file that cannot be read
BeansOf(file) ==
    IF file.readable
    THEN MarkerIndices(BEAN, file.content, _compute_comment_lines(file.content))
    ELSE <<>>

\* the entries "{java_file.name}:{bean_idx + 1}" of one file
UnmatchedOfFile(e) ==
    LET ls == e.file.content
        cl == _compute_comment_lines(ls)
        left == UnmatchedFrom(BeansOf(e.file), 1, {},
                              MarkerIndices(COMB, ls, cl), ls, cl)
    IN  IF ~e.file.readable THEN <<>>
        ELSE [n \in 1..Len(left) |-> <<NameOf(e.path), left[n] + 1>>]

check_conditional_on_missing_bean(P, table, cache, test_cache) ==
    LET scanned == ConfigFilesToScan(P, cache)
        total_beans_ == SumOf([e \in 1..Len(scanned) |-> Len(BeansOf(scanned[e].file))])
        without == Concat([e \in 1..Len(scanned) |-> UnmatchedOfFile(scanned[e])])
        matched == total_beans_ - Len(without)
    IN  Evaluated("conditional_on_missing_bean", table,
                  Verdict(total_beans_, without),
                  Detail("{matched}/{total_beans} @Bean methods have @ConditionalOnMissingBean - missing: {first 3}",
                         <<matched, total_beans_>>,
                         SubSeq(without, 1, Min(3, Len(without)))),
                  <<"autoconfigure", "persistence", "rest", "events">>, <<>>)

\* match_re.search(line) for r"matchIfMissing\s*=\s*true"
MatchIfMissingTrue(line) ==
    \E p \in 1..Len(line), q \in 1..Len(line), r \in 1..Len(line) :
        /\ p < q /\ q < r
        /\ line[p] = "matchIfMissing" /\ line[q] = "=" /\ line[r] = "true"
        /\ \A m \in ((p + 1)..(q - 1)) \cup ((q + 1)..(r - 1)) : IsSpace(line[m])

\* the file has matchIfMissing = true on a line that is no comment line
HasFlagDefault(file) ==
    /\ Mentions(file, <<"matchIfMissing">>)
    /\ \E n \in 1..Len(file.content) :
          /\ (n - 1) \notin _compute_comment_lines(file.content)
          /\ MatchIfMissingTrue(file.content[n])

check_feature_flags_default(P, table, cache, test_cache) ==
    LET Violates(e) == HasFlagDefault(e.file)
        files_with_violations ==
            NamesOf(SelectSeq(RGlob(P.main, <<>>, "*.java"), Violates))
        violations == Len(files_with_violations)
        is_passed == violations = 0
    IN  Evaluated("feature_flags_default", table, is_passed,
                  IF is_passed
                  THEN Detail("No matchIfMissing = true (secure-by-default)", <<>>, <<>>)
                  ELSE Detail("{n} file(s) with matchIfMissing = true: {files}",
                              <<violations>>, files_with_violations),
                  <<>>, <<>>)

imports_file ==
    <<"META-INF", "spring", "org.springframework.boot.autoconfigure.AutoConfiguration.imports">>

\* the file of the entry at path
FileAt(root, path) ==
    LET e == CHOOSE e \in 1..Len(root.entries) : root.entries[e].path = path
    IN  root.entries[e].file

check_auto_config_meta_inf(P, table, cache, test_cache) ==
    LET NonBlank(line) == Strip(line) # <<>>
        file == FileAt(P.resources, imports_file)
        entries == IF file.readable THEN SelectSeq(file.content, NonBlank) ELSE <<>>
        is_passed == Len(entries) >= 1
    IN  IF ~IsFile(P.resources, imports_file)
        THEN Evaluated("auto_config_meta_inf", table, FALSE,
                       Detail("AutoConfiguration.imports not found", <<>>, <<>>),
                       <<>>, <<>>)
        ELSE Evaluated("auto_config_meta_inf", table, is_passed,
                       IF is_passed
                       THEN Detail("{n} auto-config(s) registered", <<Len(entries)>>, <<>>)
                       ELSE Detail("AutoConfiguration.imports is empty", <<>>, <<>>),
                       <<>>, <<>>)

check_context_runner_tests(P, table, cache, test_cache) ==
    LET Uses(e) == Mentions(e.file, <<"ApplicationContextRunner">>)
        test_files == NamesOf(SelectSeq(RGlob(P.test, <<>>, "*.java"), Uses))
        is_passed == Len(test_files) >= 1
    IN  Evaluated("context_runner_tests", table, is_passed,
                  IF is_passed
                  THEN Detail("{n} test(s): {files}", <<Len(test_files)>>, test_files)
                  ELSE Detail("No context runner tests found", <<>>, <<>>),
                  <<>>, <<>>)

-----------------------------------------------------------------------------
(* Phase 5: frontend.                                                      *)

\* standalone_re.search(content) for r"standalone\s*:\s*true"
StandaloneTrue(text) ==
    \E p \in 1..Len(text), q \in 1..Len(text), r \in 1..Len(text) :
        /\ p < q /\ q < r
        /\ text[p] = "standalone" /\ text[q] = ":" /\ text[r] = "true"
        /\ \A m \in ((p + 1)..(q - 1)) \cup ((q + 1)..(r - 1)) : IsSpace(text[m])

check_angular_standalone_onpush(P, table, cache, test_cache) ==
    LET component_files == RGlob(P.frontend, <<>>, "*.component.ts")
        Standalone(e) == e.file.readable /\ StandaloneTrue(JoinLines(e.file.content))
        OnPush(e) == Mentions(e.file, <<"OnPush">>)
        standalone_count == Len(SelectSeq(component_files, Standalone))
        onpush_count == Len(SelectSeq(component_files, OnPush))
        total == Len(component_files)
    IN  IF ~P.frontend.exists
        THEN Evaluated("angular_standalone_onpush", table, TRUE,
                       Detail("No frontend (N/A - pass by default)", <<>>, <<>>),
                       <<>>, <<>>)
        ELSE IF component_files = <<>>
        THEN Evaluated("angular_standalone_onpush", table, TRUE,
                       Detail("No Angular components found (N/A)", <<>>, <<>>),
                       <<>>, <<>>)
        ELSE Evaluated("angular_standalone_onpush", table,
                       standalone_count = total /\ onpush_count = total,
                       Detail("{standalone_count}/{total} standalone, {onpush_count}/{total} OnPush",
                              <<standalone_count, total, onpush_count, total>>, <<>>),
                       <<>>, <<>>)

\* method = getattr(self, f"check_{dim_key}"); result = method()
Evaluate(dim_key, P, table, cache, test_cache) ==
    CASE dim_key = "package_structure" ->
             check_package_structure(P, table, cache, test_cache)
      [] dim_key = "modulith_marker" ->
             check_modulith_marker(P, table, cache, test_cache)
      [] dim_key = "ci_pipeline" ->
             check_ci_pipeline(P, table, cache, test_cache)
      [] dim_key = "core_isolation" ->
             check_core_isolation(P, table, cache, test_cache)
      [] dim_key = "port_interfaces" ->
             check_port_interfaces(P, table, cache, test_cache)
      [] dim_key = "domain_test_coverage" ->
             check_domain_test_coverage(P, table, cache, test_cache)
      [] dim_key = "bridge_configs" ->
             check_bridge_configs(P, table, cache, test_cache)
      [] dim_key = "adapter_integration_tests" ->
             check_adapter_integration_tests(P, table, cache, test_cache)
      [] dim_key = "conditional_on_missing_bean" ->
             check_conditional_on_missing_bean(P, table, cache, test_cache)
      [] dim_key = "feature_flags_default" ->
             check_feature_flags_default(P, table, cache, test_cache)
      [] dim_key = "auto_config_meta_inf" ->
             check_auto_config_meta_inf(P, table, cache, test_cache)
      [] dim_key = "context_runner_tests" ->
             check_context_runner_tests(P, table, cache, test_cache)
      [] dim_key = "angular_standalone_onpush" ->
             check_angular_standalone_onpush(P, table, cache, test_cache)

-----------------------------------------------------------------------------
(* The repositories a checker is pointed at.                               *)

AppFile == File(<< <<"@Modulithic">>, <<"class", WS, "x">> >>)
PortFile == File(<< <<"interface", WS, "Port">> >>)
ImplFile == File(<< <<"class", WS, "x", WS, "implements", WS, "Port">> >>)
WebImportFile == File(<< <<"import ", OSF, "web", ".Foo", ";">> >>)
GuardedConfigFile == File(<< COMB, BEAN >>)
BareConfigFile == File(<< BEAN >>)
FlagFile == File(<< <<"matchIfMissing", WS, "=", WS, "true">> >>)
ThreeTestsFile == File(<< <<"@Test">>, <<"@Test">>, <<"@Test">> >>)
RunnerTestFile == File(<< <<"ApplicationContextRunner">>, <<"@Test">> >>)
ImportsFile == File(<< <<"x">>, <<>> >>)
ComponentFile == File(<< <<"standalone", ":", WS, "true">>, <<"OnPush">> >>)
PipelineFile == File(<< <<"x">> >>)
RepoFile == File(<< <<"interface", WS, "Repo">> >>)
ClassFile == File(<< <<"class", WS, "x">> >>)
CommentedPortFile ==
    File(<< SLASH_SLASH \o <<WS, "interface", WS, "Port">>, <<"class", WS, "x">> >>)
OneTestFile == File(<< <<"@Test">> >>)
TwoTestsFile == File(<< <<"@Test">>, <<"@Test">> >>)

\* a repository that has every package, test and file the scorecard asks for
MigratedProject ==
    [main |-> Root(<<
         FileEntry(<<"App.java">>, AppFile),
         DirEntry(<<"core">>),
         DirEntry(<<"persistence">>),
         DirEntry(<<"rest">>),
         DirEntry(<<"events">>),
         DirEntry(<<"autoconfigure">>),
         DirEntry(<<"core", "port">>),
         FileEntry(<<"core", "port", "Port.java">>, PortFile),
         FileEntry(<<"persistence", "FooConfiguration.java">>, GuardedConfigFile),
         FileEntry(<<"persistence", "Impl.java">>, ImplFile),
         FileEntry(<<"rest", "FooConfiguration.java">>, GuardedConfigFile),
         FileEntry(<<"events", "FooConfiguration.java">>, GuardedConfigFile),
         FileEntry(<<"autoconfigure", "FooCoreAutoConfiguration.java">>,
                   GuardedConfigFile) >>),
     test |-> Root(<<
         FileEntry(<<"ModulithStructureTest.java">>, RunnerTestFile),
         DirEntry(<<"core">>),
         DirEntry(<<"persistence">>),
         DirEntry(<<"rest">>),
         DirEntry(<<"events">>),
         FileEntry(<<"core", "FooTest.java">>, ThreeTestsFile),
         FileEntry(<<"persistence", "FooTest.java">>, ThreeTestsFile),
         FileEntry(<<"rest", "FooTest.java">>, ThreeTestsFile),
         FileEntry(<<"events", "FooTest.java">>, ThreeTestsFile) >>),
     resources |-> Root(<<
         DirEntry(<<"META-INF">>),
         DirEntry(<<"META-INF", "spring">>),
         FileEntry(imports_file, ImportsFile) >>),
     frontend |-> Root(<< FileEntry(<<"foo.component.ts">>, ComponentFile) >>),
     ci |-> Root(<<
         DirEntry(<<".github">>),
         DirEntry(<<".github", "workflows">>),
         FileEntry(<<".github", "workflows", "build.yml">>, PipelineFile) >>)]

\* a repository where package names occur at several depths, as the name of
\* a file, and at different places under the main and the test root
NestedProject ==
    [main |-> Root(<<
         DirEntry(<<"a">>),
         DirEntry(<<"b">>),
         FileEntry(<<"persistence">>, Unreadable),
         DirEntry(<<"a", "legacy">>),
         DirEntry(<<"a", "rest">>),
         DirEntry(<<"a", "legacy", "core">>),
         FileEntry(<<"a", "legacy", "core", "App.java">>, WebImportFile),
         FileEntry(<<"a", "rest", "FooConfiguration.java">>, BareConfigFile),
         DirEntry(<<"b", "core">>),
         DirEntry(<<"b", "rest">>),
         FileEntry(<<"b", "core", "App.java">>, AppFile),
         FileEntry(<<"b", "rest", "FooConfiguration.java">>, GuardedConfigFile) >>),
     test |-> Root(<<
         DirEntry(<<"it">>),
         DirEntry(<<"it", "core">>),
         DirEntry(<<"it", "rest">>),
         FileEntry(<<"it", "core", "FooTest.java">>, ThreeTestsFile),
         DirEntry(<<"it", "rest", "core">>) >>),
     resources |-> Root(<< DirEntry(<<"META-INF">>) >>),
     frontend |-> Root(<< FileEntry(<<"foo.component.ts">>, Unreadable) >>),
     ci |-> Root(<< DirEntry(<<".azure">>), DirEntry(<<".azure", "pipelines">>) >>)]

\* a repository whose main source root holds a default-on feature flag and
\* whose test and resources roots do not exist
FlaggedProject ==
    [main |-> Root(<<
         DirEntry(<<"core">>),
         FileEntry(<<"core", "App.java">>, FlagFile),
         DirEntry(<<"autoconfigure">>),
         FileEntry(<<"autoconfigure", "FooCoreAutoConfiguration.java">>,
                   BareConfigFile) >>),
     test |-> MissingRoot,
     resources |-> MissingRoot,
     frontend |-> MissingRoot,
     ci |-> MissingRoot]

\* a repository that has tests and resources but no main source root
TestsOnlyProject ==
    [main |-> MissingRoot,
     test |-> MigratedProject.test,
     resources |-> MigratedProject.resources,
     frontend |-> MissingRoot,
     ci |-> MigratedProject.ci]

\* a repository with the three required packages only, whose port directory
\* mixes interfaces, a class, a commented-out interface and an unreadable
\* file, and whose core tests are spread over two directories
PortsProject ==
    [main |-> Root(<<
         DirEntry(<<"core">>),
         DirEntry(<<"persistence">>),
         DirEntry(<<"rest">>),
         DirEntry(<<"core", "port">>),
         FileEntry(<<"core", "port", "Impl.java">>, ClassFile),
         FileEntry(<<"core", "port", "Port.java">>, PortFile),
         FileEntry(<<"core", "port", "FooTest.java">>, CommentedPortFile),
         FileEntry(<<"core", "port", "App.java">>, RepoFile),
         FileEntry(<<"core", "port", "FooConfiguration.java">>, Unreadable),
         FileEntry(<<"persistence", "FooConfiguration.java">>, ClassFile),
         FileEntry(<<"persistence", "Impl.java">>, ImplFile),
         FileEntry(<<"rest", "FooConfiguration.java">>, GuardedConfigFile) >>),
     test |-> Root(<<
         DirEntry(<<"core">>),
         FileEntry(<<"core", "FooTest.java">>, TwoTestsFile),
         FileEntry(<<"core", "ModulithStructureTest.java">>, ClassFile),
         DirEntry(<<"core", "model">>),
         FileEntry(<<"core", "model", "FooTest.java">>, OneTestFile) >>),
     resources |-> MissingRoot,
     frontend |-> MissingRoot,
     ci |-> MissingRoot]

\* a repository whose port directory declares no interface, whose only
\* adapter package is the optional events/ and whose core tests are empty
StubProject ==
    [main |-> Root(<<
         DirEntry(<<"core">>),
         DirEntry(<<"events">>),
         DirEntry(<<"core", "port">>),
         FileEntry(<<"core", "port", "Impl.java">>, ClassFile),
         FileEntry(<<"core", "port", "Port.java">>, CommentedPortFile),
         FileEntry(<<"events", "FooConfiguration.java">>, ClassFile) >>),
     test |-> Root(<<
         DirEntry(<<"core">>),
         FileEntry(<<"core", "FooTest.java">>, ClassFile),
         FileEntry(<<"core", "ModulithStructureTest.java">>, ClassFile) >>),
     resources |-> MissingRoot,
     frontend |-> MissingRoot,
     ci |-> MissingRoot]

\* a repository whose one port no adapter implements, whose persistence/
\* has no configuration file, whose rest/ has two, and whose core tests
\* hold too few test methods
DraftProject ==
    [main |-> Root(<<
         DirEntry(<<"core">>),
         DirEntry(<<"persistence">>),
         DirEntry(<<"rest">>),
         DirEntry(<<"events">>),
         DirEntry(<<"core", "port">>),
         FileEntry(<<"core", "port", "Port.java">>, PortFile),
         FileEntry(<<"persistence", "App.java">>, ClassFile),
         FileEntry(<<"rest", "FooConfiguration.java">>, ClassFile),
         FileEntry(<<"rest", "FooCoreAutoConfiguration.java">>, BareConfigFile),
         FileEntry(<<"events", "FooConfiguration.java">>, GuardedConfigFile) >>),
     test |-> Root(<<
         DirEntry(<<"core">>),
         FileEntry(<<"core", "FooTest.java">>, TwoTestsFile),
         FileEntry(<<"core", "ModulithStructureTest.java">>, ClassFile) >>),
     resources |-> MissingRoot,
     frontend |-> MissingRoot,
     ci |-> MissingRoot]

Projects ==
    {NoProject, MigratedProject, NestedProject, FlaggedProject, TestsOnlyProject,
     PortsProject, StubProject, DraftProject}

-----------------------------------------------------------------------------
(* A ScorecardChecker at work: construction, run_all, run_phase, and       *)
(* direct calls of the evaluators and of the two package lookups.  A       *)
(* behaviour makes at most MaxCalls calls on the checkers it constructs.   *)

MaxCalls == 2

\* the table with the key of entry d replaced
WithKey(table, d, key) ==
    [n \in 1..Len(table) |->
        IF n = d THEN Dimension(key, table[n].phase, table[n].weight) ELSE table[n]]

\* the DIMENSIONS tables tried: the one of the code, and two with a key
\* that names no method
Tables ==
    {DIMENSIONS,
     WithKey(DIMENSIONS, 1, "package_strcture"),
     WithKey(DIMENSIONS, 10, "feature_flag_default")}

PhaseInputs == {-1, 0, 1, 2, 3, 4, 5, 6, 99}

LookupNames == {"core", "persistence", "rest", "nowhere"}

RECURSIVE Sorted(_)
\* sorted(keys), ascending
Sorted(S) ==
    IF S = {} THEN <<>>
    ELSE LET least == CHOOSE n \in S : \A m \in S : n <= m
         IN  <<least>> \o Sorted(S \ {least})

\* run_phase accepting every phase number
AnyPhaseValid(n) == TRUE

\* `phase_num in PHASES`
ValidPhase(n) == n \in PHASES

\* run_phase labelling its PhaseResult with the first phase
RunPhaseResultOfFirstPhase(n, checks) == <<PhaseResult(Sorted(PHASES)[1], checks)>>

\* the phases of the VerifyResult run_phase returns
RunPhaseResult(n, checks) == <<PhaseResult(n, checks)>>

InitRun ==
    /\ pc = "new"
    /\ project \in Projects
    /\ declared \in Tables
    /\ methods_validated = FALSE
    /\ pkg_cache = <<>> /\ test_pkg_cache = <<>>
    /\ walked = {} /\ rewalked = FALSE /\ invoked = <<>>
    /\ phase_num = 0 /\ run_checks = <<>> /\ run_phases = <<>>
    /\ all_result = <<>>
    /\ calls = 0 /\ error = "none"
    /\ op = "none" /\ found_dir = NoLookup /\ check_result = NoCheck
    /\ lines = <<>> /\ comment_lines = {}
    /\ ClassifierIdle
    /\ PairerIdle
    /\ DistanceIdle
    /\ ScoreIdle
    /\ ImportIdle
    /\ ToolIdle

\* ScorecardChecker(detector) when _validate_dimension_methods raises
ConstructRaises ==
    /\ pc \in {"new", "ready"}
    /\ ~methods_validated /\ ValidationRaises(declared)
    /\ error' = "AttributeError"
    /\ op' = "__init__"
    /\ pc' = "raised"
    /\ UNCHANGED <<project, declared, methods_validated, pkg_cache, test_pkg_cache,
                   walked, rewalked, invoked, phase_num, run_checks, run_phases,
                   all_result, calls, found_dir, check_result>>
    /\ UNCHANGED <<classifierVars, pairerVars, distanceVars, scoreVars, importVars,
                   toolVars>>

\* ScorecardChecker(detector): a new checker with empty caches
Construct ==
    /\ pc \in {"new", "ready"}
    /\ methods_validated \/ ~ValidationRaises(declared)
    /\ methods_validated' = TRUE
    /\ pkg_cache' = <<>> /\ test_pkg_cache' = <<>>
    /\ walked' = {}
    /\ found_dir' = NoLookup
    /\ error' = "none"
    /\ op' = "__init__"
    /\ pc' = "ready"
    /\ UNCHANGED <<project, declared, rewalked, invoked, phase_num, run_checks,
                   run_phases, all_result, calls, check_result>>
    /\ UNCHANGED <<classifierVars, pairerVars, distanceVars, scoreVars, importVars,
                   toolVars>>

\* the tree walks of a call add to the history of walks
WalkedAfter(root_name, walks) ==
    {<<root_name, walks[w]>> : w \in 1..Len(walks)}

\* a walk of the call repeats a walk this checker has made
Rewalks(root_name, walks) ==
    \/ \E w \in 1..Len(walks) : <<root_name, walks[w]>> \in walked
    \/ \E w \in 1..Len(walks), x \in 1..Len(walks) : w < x /\ walks[w] = walks[x]

\* the effect of one evaluator on the caches and on the history of walks
EvaluatorEffect(ev) ==
    LET main_walks == WalksOf(pkg_cache, project.main, ev.main)
        test_walks == WalksOf(test_pkg_cache, project.test, ev.test)
    IN  /\ pkg_cache' = CacheAfterAll(pkg_cache, project.main, ev.main)
        /\ test_pkg_cache' = CacheAfterAll(test_pkg_cache, project.test, ev.test)
        /\ walked' = walked \cup WalkedAfter("main", main_walks)
                            \cup WalkedAfter("test", test_walks)
        /\ rewalked' = (rewalked \/ Rewalks("main", main_walks)
                                 \/ Rewalks("test", test_walks))
        /\ check_result' = ev.check

\* checker.run_all(): entry
RunAll ==
    /\ pc = "ready" /\ calls < MaxCalls
    /\ calls' = calls + 1
    /\ op' = "run_all"
    /\ error' = "none"
    /\ phase_num' = Sorted(PHASES)[1]
    /\ run_checks' = <<>> /\ run_phases' = <<>>
    /\ invoked' = <<>>
    /\ result' = <<>>
    /\ pc' = "run_all"
    /\ UNCHANGED <<project, declared, methods_validated, pkg_cache, test_pkg_cache,
                   walked, rewalked, all_result, found_dir, check_result>>
    /\ UNCHANGED <<accessed, score_value, flag_value>>
    /\ UNCHANGED <<classifierVars, pairerVars, distanceVars, importVars, toolVars>>

\* checker.run_phase(n) with n not in PHASES: raise ValueError
RunPhaseRaises ==
    /\ pc = "ready" /\ calls < MaxCalls
    /\ \E n \in PhaseInputs :
          /\ ~ValidPhase(n)
          /\ phase_num' = n
    /\ calls' = calls + 1
    /\ op' = "run_phase"
    /\ error' = "ValueError"
    /\ invoked' = <<>>
    /\ result' = <<>>
    /\ pc' = "ready"
    /\ UNCHANGED <<project, declared, methods_validated, pkg_cache, test_pkg_cache,
                   walked, rewalked, run_checks, run_phases, all_result, found_dir,
                   check_result>>
    /\ UNCHANGED <<accessed, score_value, flag_value>>
    /\ UNCHANGED <<classifierVars, pairerVars, distanceVars, importVars, toolVars>>

\* checker.run_phase(n): entry
RunPhase ==
    /\ pc = "ready" /\ calls < MaxCalls
    /\ \E n \in PhaseInputs :
          /\ ValidPhase(n)
          /\ phase_num' = n
    /\ calls' = calls + 1
    /\ op' = "run_phase"
    /\ error' = "none"
    /\ run_checks' = <<>>
    /\ invoked' = <<>>
    /\ result' = <<>>
    /\ pc' = "run_phase"
    /\ UNCHANGED <<project, declared, methods_validated, pkg_cache, test_pkg_cache,
                   walked, rewalked, run_phases, all_result, found_dir, check_result>>
    /\ UNCHANGED <<accessed, score_value, flag_value>>
    /\ UNCHANGED <<classifierVars, pairerVars, distanceVars, importVars, toolVars>>

\* one turn of `for dim_key, dim_info in dims.items()`: getattr, the call
\* of the evaluator, checks.append(result)
InvokeEvaluator ==
    /\ pc \in {"run_all", "run_phase"}
    /\ LET dims == DimsOfPhase(declared, phase_num)
       IN  /\ Len(run_checks) < Len(dims)
           /\ LET dim_key == dims[Len(run_checks) + 1].key
                  ev == Evaluate(dim_key, project, declared, pkg_cache, test_pkg_cache)
              IN  IF HasMethod(dim_key)
                  THEN /\ EvaluatorEffect(ev)
                       /\ run_checks' = Append(run_checks, ev.check)
                       /\ invoked' = Append(invoked, dim_key)
                       /\ UNCHANGED <<pc, error>>
                  ELSE /\ error' = "AttributeError"
                       /\ pc' = "ready"
                       /\ UNCHANGED <<pkg_cache, test_pkg_cache, walked, rewalked,
                                      check_result, run_checks, invoked>>
    /\ UNCHANGED <<project, declared, methods_validated, phase_num, run_phases,
                   all_result, calls, op, found_dir>>
    /\ UNCHANGED <<classifierVars, pairerVars, distanceVars, scoreVars, importVars,
                   toolVars>>

\* the phase that follows phase in sorted(PHASES.keys()), 0 after the last
PhaseAfter(phase) ==
    LET order == Sorted(PHASES)
        at == CHOOSE n \in 1..Len(order) : order[n] = phase
    IN  IF at < Len(order) THEN order[at + 1] ELSE 0

\* run_all: phases.append(PhaseResult(...)) and the next turn of the outer loop
ClosePhase ==
    /\ pc = "run_all"
    /\ phase_num # 0
    /\ Len(run_checks) = Len(DimsOfPhase(declared, phase_num))
    /\ run_phases' = Append(run_phases, PhaseResult(phase_num, run_checks))
    /\ run_checks' = <<>>
    /\ phase_num' = PhaseAfter(phase_num)
    /\ UNCHANGED <<pc, project, declared, methods_validated, pkg_cache, test_pkg_cache,
                   walked, rewalked, invoked, all_result, calls, error, op, found_dir,
                   check_result>>
    /\ UNCHANGED <<classifierVars, pairerVars, distanceVars, scoreVars, importVars,
                   toolVars>>

\* run_all: return VerifyResult(phases=phases, ...)
ReturnAll ==
    /\ pc = "run_all"
    /\ phase_num = 0
    /\ result' = run_phases
    /\ all_result' = run_phases
    /\ pc' = "ready"
    /\ UNCHANGED <<project, declared, methods_validated, pkg_cache, test_pkg_cache,
                   walked, rewalked, invoked, phase_num, run_checks, run_phases,
                   calls, error, op, found_dir, check_result>>
    /\ UNCHANGED <<accessed, score_value, flag_value>>
    /\ UNCHANGED <<classifierVars, pairerVars, distanceVars, importVars, toolVars>>

\* run_phase: return VerifyResult(phases=[PhaseResult(...)], ...)
ReturnPhase ==
    /\ pc = "run_phase"
    /\ Len(run_checks) = Len(DimsOfPhase(declared, phase_num))
    /\ result' = RunPhaseResult(phase_num, run_checks)
    /\ pc' = "ready"
    /\ UNCHANGED <<project, declared, methods_validated, pkg_cache, test_pkg_cache,
                   walked, rewalked, invoked, phase_num, run_checks, run_phases,
                   all_result, calls, error, op, found_dir, check_result>>
    /\ UNCHANGED <<accessed, score_value, flag_value>>
    /\ UNCHANGED <<classifierVars, pairerVars, distanceVars, importVars, toolVars>>

\* a direct call checker.check_<key>()
CallEvaluator ==
    /\ pc = "ready" /\ calls < MaxCalls
    /\ \E d \in 1..Len(declared) :
          /\ HasMethod(declared[d].key)
          /\ EvaluatorEffect(Evaluate(declared[d].key, project, declared,
                                      pkg_cache, test_pkg_cache))
          /\ invoked' = <<declared[d].key>>
    /\ calls' = calls + 1
    /\ op' = "check"
    /\ error' = "none"
    /\ UNCHANGED <<pc, project, declared, methods_validated, phase_num, run_checks,
                   run_phases, all_result, found_dir>>
    /\ UNCHANGED <<classifierVars, pairerVars, distanceVars, scoreVars, importVars,
                   toolVars>>

\* the value a lookup returns, with the root and the name it was asked for
\* and whether the first `if` of the lookup returned it
Lookup(root_name, package_name, res, cached) ==
    [root |-> root_name, name |-> package_name, found |-> res.found,
     path |-> res.path, cached |-> cached]

\* a direct call checker._find_package_dir(package_name)
FindPackageDir ==
    /\ pc = "ready" /\ calls < MaxCalls
    /\ \E package_name \in LookupNames :
          LET walks == WalksOf(pkg_cache, project.main, <<package_name>>)
          IN  /\ found_dir' = Lookup("main", package_name,
                                     FindDir(pkg_cache, project.main, package_name),
                                     CacheHit(pkg_cache, package_name))
              /\ pkg_cache' = CacheAfter(pkg_cache, project.main, package_name)
              /\ walked' = walked \cup WalkedAfter("main", walks)
              /\ rewalked' = (rewalked \/ Rewalks("main", walks))
    /\ calls' = calls + 1
    /\ op' = "_find_package_dir"
    /\ error' = "none"
    /\ UNCHANGED <<pc, project, declared, methods_validated, test_pkg_cache, invoked,
                   phase_num, run_checks, run_phases, all_result, check_result>>
    /\ UNCHANGED <<classifierVars, pairerVars, distanceVars, scoreVars, importVars,
                   toolVars>>

\* a direct call checker._find_test_package_dir(package_name)
FindTestPackageDir ==
    /\ pc = "ready" /\ calls < MaxCalls
    /\ \E package_name \in LookupNames :
          LET walks == WalksOf(test_pkg_cache, project.test, <<package_name>>)
          IN  /\ found_dir' = Lookup("test", package_name,
                                     FindDir(test_pkg_cache, project.test, package_name),
                                     CacheHit(test_pkg_cache, package_name))
              /\ test_pkg_cache' = CacheAfter(test_pkg_cache, project.test, package_name)
              /\ walked' = walked \cup WalkedAfter("test", walks)
              /\ rewalked' = (rewalked \/ Rewalks("test", walks))
    /\ calls' = calls + 1
    /\ op' = "_find_test_package_dir"
    /\ error' = "none"
    /\ UNCHANGED <<pc, project, declared, methods_validated, pkg_cache, invoked,
                   phase_num, run_checks, run_phases, all_result, check_result>>
    /\ UNCHANGED <<classifierVars, pairerVars, distanceVars, scoreVars, importVars,
                   toolVars>>

NextRun ==
    \/ ConstructRaises \/ Construct
    \/ RunAll \/ RunPhaseRaises \/ RunPhase
    \/ InvokeEvaluator \/ ClosePhase \/ ReturnAll \/ ReturnPhase
    \/ CallEvaluator \/ FindPackageDir \/ FindTestPackageDir

SpecRun == InitRun /\ [][NextRun]_vars

-----------------------------------------------------------------------------
(* _is_forbidden_import on its own: the import path is drawn from the      *)
(* sequences of at most MaxNameParts pieces.                               *)

MaxNameParts == 2

ImportPieces ==
    {"jakarta.persistence", OSF, "data", "web", "stereotype", "boot", "context",
     "beans", "transaction", ".annotation.Transactional", "modulith", ".Foo",
     "java.util.List"}

InitImport ==
    /\ pc = "import"
    /\ \E n \in 0..MaxNameParts : imported \in [1..n -> ImportPieces]
    /\ forbidden = FALSE
    /\ lines = <<>> /\ comment_lines = {}
    /\ ClassifierIdle
    /\ PairerIdle
    /\ DistanceIdle
    /\ ScoreIdle
    /\ CheckerIdle
    /\ ToolIdle

\* the call _is_forbidden_import(import_path)
IsForbiddenImport ==
    /\ pc = "import"
    /\ forbidden' = _is_forbidden_import(imported)
    /\ pc' = "import_done"
    /\ UNCHANGED <<imported, classifierVars, pairerVars, distanceVars, scoreVars,
                   checkerVars, toolVars>>

NextImport == IsForbiddenImport

SpecImport == InitImport /\ [][NextImport]_vars

\* name begins with prefix
BeginsWith(name, prefix) ==
    Len(prefix) <= Len(name) /\ \A n \in 1..Len(prefix) : name[n] = prefix[n]

OnDenyList(name) ==
    \E d \in 1..Len(FORBIDDEN_CORE_IMPORTS) : BeginsWith(name, FORBIDDEN_CORE_IMPORTS[d])

OnAllowList(name) ==
    \E a \in 1..Len(ALLOWED_CORE_IMPORTS) : BeginsWith(name, ALLOWED_CORE_IMPORTS[a])

\* C17: _is_forbidden_import(name) is true exactly when name starts with a
\* prefix of the deny-list and with no prefix of the allow-list.
ForbiddenIffDeniedAndNotAllowed ==
    pc = "import_done" =>
        (forbidden <=> (OnDenyList(imported) /\ ~OnAllowList(imported)))

\* a Spring web import was judged, and found forbidden
DeniedImportJudged ==
    /\ pc = "import_done"
    /\ imported = <<OSF, "web">>
    /\ forbidden

-----------------------------------------------------------------------------
(* Claims about the runs of a checker.                                     *)

\* the declared entry of a dimension key
DeclaredAs(key) == declared[CHOOSE d \in 1..Len(declared) : declared[d].key = key]

\* the place of a dimension key in the declaration
DeclaredAt(key) == CHOOSE d \in 1..Len(declared) : declared[d].key = key

\* run_all / run_phase has returned and nothing was called since
Returned(method) == op = method /\ pc = "ready" /\ error = "none"

\* C13: run_phase with a phase number outside 1..5 raises ValueError before
\* any evaluator is invoked and returns no VerifyResult.
InvalidPhaseRaisesBeforeEvaluating ==
    (op = "run_phase" /\ phase_num \notin 1..5) =>
        /\ error = "ValueError"
        /\ pc = "ready"
        /\ invoked = <<>>
        /\ Len(result) = 0

\* run_phase(99) was called after another call had been served
Phase99Refused ==
    /\ op = "run_phase" /\ phase_num = 99
    /\ error = "ValueError"
    /\ calls = 2

\* C14: run_all invokes each of the 13 evaluators exactly once, phases
\* ascending and declaration order within a phase, and returns five phase
\* results in that order whose checks carry the declared phase and weight.
RunAllInvokesEachOnceInOrder ==
    Returned("run_all") =>
        /\ Len(declared) = 13
        /\ \A d \in 1..Len(declared) :
              Cardinality({n \in 1..Len(invoked) : invoked[n] = declared[d].key}) = 1
        /\ Len(invoked) = 13
        /\ \A a \in 1..Len(invoked), b \in 1..Len(invoked) :
              a < b =>
                 /\ DeclaredAs(invoked[a]).phase <= DeclaredAs(invoked[b]).phase
                 /\ DeclaredAs(invoked[a]).phase = DeclaredAs(invoked[b]).phase
                       => DeclaredAt(invoked[a]) < DeclaredAt(invoked[b])
        /\ Len(result) = 5
        /\ \A p \in 1..Len(result) :
              /\ result[p].phase = p
              /\ \A c \in 1..Len(result[p].checks) :
                    /\ result[p].checks[c].phase = p
                    /\ DeclaredAs(result[p].checks[c].dimension).phase = p
                    /\ result[p].checks[c].weight
                           = DeclaredAs(result[p].checks[c].dimension).weight
        /\ Concat([p \in 1..Len(result) |->
                      [c \in 1..Len(result[p].checks) |->
                          result[p].checks[c].dimension]]) = invoked

\* run_all has returned for the repository that has everything
MigratedProjectScored ==
    /\ Returned("run_all")
    /\ project = MigratedProject
    /\ Len(result) = 5
    /\ \A p \in 1..5 : \A c \in 1..Len(result[p].checks) : result[p].checks[c].passed

\* the keys declared for a phase, in declaration order
KeysOfPhase(phase) ==
    LET Belongs(d) == declared[d].phase = phase
        at == SelectSeq([d \in 1..Len(declared) |-> d], Belongs)
    IN  [n \in 1..Len(at) |-> declared[at[n]].key]

\* the entry of phase in the result run_all returned last
EntryOfRunAll(phase) ==
    all_result[CHOOSE e \in 1..Len(all_result) : all_result[e].phase = phase]

\* C15: run_phase(n) for n in 1..5 returns exactly one PhaseResult, of phase
\* n, with the dimensions of phase n in declaration order and with the same
\* passed flags and details as the phase-n entry run_all returned for the
\* same tree.
RunPhaseAgreesWithRunAll ==
    (Returned("run_phase") /\ phase_num \in 1..5) =>
        /\ Len(result) = 1
        /\ result[1].phase = phase_num
        /\ [c \in 1..Len(result[1].checks) |-> result[1].checks[c].dimension]
               = KeysOfPhase(phase_num)
        /\ Len(all_result) = 5 =>
              /\ Len(EntryOfRunAll(phase_num).checks) = Len(result[1].checks)
              /\ \A c \in 1..Len(result[1].checks) :
                    /\ result[1].checks[c].dimension
                           = EntryOfRunAll(phase_num).checks[c].dimension
                    /\ result[1].checks[c].passed
                           = EntryOfRunAll(phase_num).checks[c].passed
                    /\ result[1].checks[c].detail
                           = EntryOfRunAll(phase_num).checks[c].detail

\* run_phase(2) has returned after run_all, for the repository whose
\* package names occur at several depths
PhaseTwoRerunOnNestedProject ==
    /\ Returned("run_phase") /\ phase_num = 2
    /\ Len(all_result) = 5
    /\ project = NestedProject
    /\ Len(result) = 1 /\ Len(result[1].checks) = 3

\* some declared key names no method check_<key>
UndeclaredMethod ==
    \E d \in 1..Len(declared) :
        declared[d].key \notin {DIMENSIONS[n].key : n \in 1..Len(DIMENSIONS)}

\* C16: with a declared dimension that has no method check_<key>, the
\* construction of a checker raises; no evaluator runs, no directory is
\* walked, and no call on a checker reports anything.
UndeclaredMethodStopsConstruction ==
    UndeclaredMethod =>
        /\ pc \in {"new", "raised"}
        /\ pc = "raised" => error = "AttributeError"
        /\ invoked = <<>>
        /\ walked = {}
        /\ check_result.dimension = "none"
        /\ calls = 0
        /\ Len(result) = 0 /\ Len(all_result) = 0

\* construction was refused for the table that misspells feature_flags_default
MisspeltKeyRefused ==
    /\ pc = "raised"
    /\ error = "AttributeError"
    /\ declared[10].key = "feature_flag_default"

\* the source, test and resources roots an evaluator scans
RootsScanned(dimension) ==
    CASE dimension \in {"package_structure", "core_isolation", "port_interfaces",
                        "bridge_configs", "conditional_on_missing_bean",
                        "feature_flags_default"} -> {"main"}
      [] dimension \in {"modulith_marker", "adapter_integration_tests"} -> {"main", "test"}
      [] dimension \in {"domain_test_coverage", "context_runner_tests"} -> {"test"}
      [] dimension = "auto_config_meta_inf" -> {"resources"}
      [] OTHER -> {}

\* the evaluator that returned last scans a root that does not exist
ScannedMissingRoot ==
    \E r \in RootsScanned(check_result.dimension) : ~project[r].exists

\* the detail says what was not found
ExplainsAbsence(check) ==
    \/ check.detail.text \in
          {"Missing: {missing}",
           "Neither @Modulithic marker nor ModulithStructureTest found",
           "{marker_file} found, but ModulithStructureTest missing",
           "ModulithStructureTest found, but no @Modulithic marker",
           "core/ directory not found",
           "No test files with @Test methods for core domain",
           "Missing bridge config in: {missing}; No @Bean methods in: {no_bean}",
           "No adapter modules found",
           "Missing adapter tests for: {missing} (found: {names})",
           "AutoConfiguration.imports not found",
           "No context runner tests found"}
    \/ /\ check.dimension = "conditional_on_missing_bean"
       /\ check.detail.nums = <<0, 0>>

DirectoriesNamed(root, name) ==
    IF root.exists
    THEN {root.entries[e].path :
             e \in {n \in 1..Len(root.entries) :
                       /\ root.entries[n].is_dir
                       /\ root.entries[n].path[Len(root.entries[n].path)] = name}}
    ELSE {}

\* answer is what a lookup of name below root has to give
RightAnswer(answer, root, name) ==
    IF DirectoriesNamed(root, name) = {}
    THEN ~answer.found
    ELSE /\ answer.found
         /\ answer.path \in DirectoriesNamed(root, name)
         /\ \A other \in DirectoriesNamed(root, name) : Len(answer.path) <= Len(other)

\* C19: a package lookup returns the shallowest directory below its root
\* whose final segment is the requested name, never a file and never a
\* deeper directory, and None when the root is missing or nothing matches.
LookupReturnsShallowestDirectory ==
    found_dir.root # "none" =>
        RightAnswer(found_dir, project[found_dir.root], found_dir.name)

\* core was looked up where the walk meets a deeper core/ first
ShallowerCoreChosen ==
    /\ project = NestedProject
    /\ found_dir.root = "main" /\ found_dir.name = "core"
    /\ found_dir.found /\ found_dir.path = <<"b", "core">>

\* C20: lookups are memoized per checker and per root: no name is walked
\* twice under the same root by one checker, every walked name stays in the
\* cache of its root with the answer of that root, not-found answers
\* included, and a repeated lookup returns the stored answer.
LookupsAreMemoizedPerRoot ==
    /\ ~rewalked
    /\ \A n \in DOMAIN pkg_cache :
          <<"main", n>> \in walked /\ RightAnswer(pkg_cache[n], project.main, n)
    /\ \A n \in DOMAIN test_pkg_cache :
          <<"test", n>> \in walked /\ RightAnswer(test_pkg_cache[n], project.test, n)
    /\ \A w \in walked :
          /\ w[1] = "main" => w[2] \in DOMAIN pkg_cache
          /\ w[1] = "test" => w[2] \in DOMAIN test_pkg_cache
    /\ found_dir.root = "main" =>
          /\ found_dir.name \in DOMAIN pkg_cache
          /\ pkg_cache[found_dir.name].found = found_dir.found
          /\ pkg_cache[found_dir.name].path = found_dir.path
    /\ found_dir.root = "test" =>
          /\ found_dir.name \in DOMAIN test_pkg_cache
          /\ test_pkg_cache[found_dir.name].found = found_dir.found
          /\ test_pkg_cache[found_dir.name].path = found_dir.path

\* after a run over the nested repository a lookup of core was answered
\* from the main cache, which differs from the test cache and holds a
\* not-found answer as well
CoreAnsweredFromMainCache ==
    /\ project = NestedProject
    /\ found_dir.cached /\ found_dir.root = "main" /\ found_dir.name = "core"
    /\ found_dir.path = <<"b", "core">>
    /\ "core" \in DOMAIN test_pkg_cache
    /\ test_pkg_cache["core"].path = <<"it", "core">>
    /\ "persistence" \in DOMAIN pkg_cache
    /\ ~pkg_cache["persistence"].found

-----------------------------------------------------------------------------
(* The evaluators of phases 1 to 3, judged against the tree they scan.     *)

\* C21: check_package_structure passes exactly when core, persistence and
\* rest are all found below the main source root; when it fails, its detail
\* lists the missing ones of these three, in that order, and nothing else;
\* events and autoconfigure never change the outcome.
PackageStructurePassesIffRequiredFound ==
    check_result.dimension = "package_structure" =>
        LET Absent(name) == DirectoriesNamed(project.main, name) = {}
            absent == SelectSeq(<<"core", "persistence", "rest">>, Absent)
        IN  /\ check_result.passed <=> absent = <<>>
            /\ ~check_result.passed =>
                  /\ check_result.detail.text = "Missing: {missing}"
                  /\ check_result.detail.items = absent

\* check_package_structure failed on a repository that has core/ and the
\* optional events/ but neither persistence/ nor rest/
EventsDoNotReplaceRequired ==
    /\ project = StubProject
    /\ op = "check" /\ invoked = <<"package_structure">>
    /\ check_result.dimension = "package_structure"
    /\ ~check_result.passed
    /\ check_result.detail.items = <<"persistence", "rest">>

\* the readable *.java files directly in a directory named port below the
\* core package of the main source root, in walk order
PortFilesScanned ==
    LET core == WalkTree(project.main, "core")
        InPort(e) == /\ ~e.is_dir /\ e.file.readable
                     /\ IsPrefix(core.path, e.path)
                     /\ Len(e.path) >= Len(core.path) + 2
                     /\ e.path[Len(e.path) - 1] = "port"
                     /\ GlobMatch("*.java", NameOf(e.path))
    IN  IF core.found THEN SelectSeq(project.main.entries, InPort) ELSE <<>>

\* the names of the scanned port files that declare an interface in code
\* that is not a comment / that declare none
ConformingPortFiles ==
    LET Declares(e) == InterfaceName(e.file) # <<>>
    IN  NamesOf(SelectSeq(PortFilesScanned, Declares))
NonConformingPortFiles ==
    LET Lacks(e) == InterfaceName(e.file) = <<>>
    IN  NamesOf(SelectSeq(PortFilesScanned, Lacks))

\* the detail counts and names the interface files and, apart from them,
\* the non-interface files
ReportsPortFiles(check, conforming, non_conforming) ==
    /\ Len(check.detail.nums) = 2 /\ Len(check.detail.items) = 3
    /\ check.detail.nums = <<Len(conforming), Len(non_conforming)>>
    /\ check.detail.items[1] = conforming
    /\ check.detail.items[2] = non_conforming

\* C22 as stated: the readable port files without an interface declaration
\* are reported in the detail as non-interface files, apart from the count
\* of interface files, for every mix, zero interface files included.
NonInterfaceFilesAlwaysReported ==
    (check_result.dimension = "port_interfaces" /\ NonConformingPortFiles # <<>>) =>
        ReportsPortFiles(check_result, ConformingPortFiles, NonConformingPortFiles)

\* C22: the readable port files without an interface declaration in their
\* non-comment code are reported in the detail as non-interface files,
\* apart from the count of interface files, for every mix with at least one
\* interface file; with no interface file the check fails and its detail is
\* the fixed "No port interfaces found" message, which names no file.
NonInterfaceFilesReportedUnlessNoInterface ==
    check_result.dimension = "port_interfaces" =>
        \E conforming \in {ConformingPortFiles},
           non_conforming \in {NonConformingPortFiles} :
            IF conforming # <<>>
            THEN ReportsPortFiles(check_result, conforming, non_conforming)
            ELSE /\ ~check_result.passed
                 /\ check_result.detail.items = <<>>
                 /\ check_result.detail.text \in
                       {"core/ directory not found",
                        "No port interfaces found in core/port/ (files must contain 'interface' keyword)"}

\* check_port_interfaces was called on a port directory of two interfaces,
\* a class and a file whose only interface is in a comment
PortsMixReported ==
    /\ project = PortsProject
    /\ op = "check" /\ invoked = <<"port_interfaces">>
    /\ check_result.dimension = "port_interfaces"
    /\ check_result.detail.nums = <<2, 2>>
    /\ check_result.detail.items[2] = <<"Impl.java", "FooTest.java">>

\* the interface names the scanned port files declare, in walk order
DeclaredContracts ==
    Concat([e \in 1..Len(PortFilesScanned) |->
               InterfaceName(PortFilesScanned[e].file)])

\* some readable *.java file below an adapter package of the main source
\* root declares a class that implements the contract
HasImplementor(contract) ==
    \E pkg \in {"persistence", "rest", "events", "autoconfigure"} :
        \E dir \in {WalkTree(project.main, pkg)} :
            /\ dir.found
            /\ \E e \in 1..Len(project.main.entries) :
                  \E entry \in {project.main.entries[e]} :
                      /\ ~entry.is_dir /\ entry.file.readable
                      /\ IsPrefix(dir.path, entry.path)
                      /\ Len(entry.path) > Len(dir.path)
                      /\ GlobMatch("*.java", NameOf(entry.path))
                      /\ Implements(entry.file, contract)

\* C23: check_port_interfaces passes exactly when at least one port file
\* declares an interface in its non-comment code; the declared contracts
\* that no class of an adapter directory implements are named, and no
\* others, in the WARNING of the detail, and never change the outcome.
PortCheckPassesIffInterfaceDeclared ==
    check_result.dimension = "port_interfaces" =>
        \E contracts \in {DeclaredContracts} :
            /\ check_result.passed <=> contracts # <<>>
            /\ check_result.passed =>
                  LET Unimplemented(contract) == ~HasImplementor(contract)
                  IN  /\ Len(check_result.detail.items) = 3
                      /\ check_result.detail.items[3]
                            = SelectSeq(contracts, Unimplemented)

\* check_port_interfaces passed on a repository where an adapter implements
\* Port and nothing implements Repo
UnimplementedRepoOnlyWarned ==
    /\ project = PortsProject
    /\ op = "check" /\ invoked = <<"port_interfaces">>
    /\ check_result.dimension = "port_interfaces"
    /\ check_result.passed
    /\ check_result.detail.items[1] = <<"Port.java", "App.java">>
    /\ check_result.detail.items[3] = <<"Repo">>

\* the readable *Test.java files at any depth below the core package of the
\* test source root, in walk order
CoreTestFiles ==
    LET core == WalkTree(project.test, "core")
        IsTest(e) == /\ ~e.is_dir /\ e.file.readable
                     /\ IsPrefix(core.path, e.path) /\ Len(e.path) > Len(core.path)
                     /\ GlobMatch("*Test.java", NameOf(e.path))
    IN  IF core.found THEN SelectSeq(project.test.entries, IsTest) ELSE <<>>

\* those of them that hold a @Test marker / that hold none
MarkedTestFiles ==
    LET Marked(e) == \E l \in 1..Len(e.file.content) :
                         Contains(e.file.content[l], <<"@Test">>)
    IN  SelectSeq(CoreTestFiles, Marked)
EmptyTestFiles ==
    LET Unmarked(e) == \A l \in 1..Len(e.file.content) :
                           ~Contains(e.file.content[l], <<"@Test">>)
    IN  SelectSeq(CoreTestFiles, Unmarked)

\* the @Test markers of the marked files, all together
MarkersIn(files) == SumOf([e \in 1..Len(files) |-> TestMethods(files[e].file)])

\* the check passes exactly on one marked file or more and three markers or
\* more; empty files are in neither number
PassesOnThreeMarkers(check, marked) ==
    check.passed <=> (Len(marked) >= 1 /\ MarkersIn(marked) >= 3)

\* C24 as stated: check_domain_test_coverage passes exactly when a
\* *Test.java file under the core test directory holds a @Test marker and
\* the markers number three or more; the files without a marker count in
\* neither number and are reported apart in the detail, whether the check
\* passes or fails.
EmptyTestFilesAlwaysReported ==
    check_result.dimension = "domain_test_coverage" =>
        /\ PassesOnThreeMarkers(check_result, MarkedTestFiles)
        /\ EmptyTestFiles # <<>> =>
              /\ Len(check_result.detail.nums) = 3
              /\ check_result.detail.nums[3] = Len(EmptyTestFiles)

\* C24: check_domain_test_coverage passes exactly when a *Test.java file
\* under the core test directory holds a @Test marker and the markers number
\* three or more; the files without a marker count in neither number; a
\* passing detail reports them apart, as the number of files without @Test
\* methods, and a failing detail gives the two numbers, or that no test
\* file has @Test methods, and does not report them.
EmptyTestFilesReportedWhenPassing ==
    check_result.dimension = "domain_test_coverage" =>
        \E marked \in {MarkedTestFiles}, empty \in {EmptyTestFiles} :
            /\ PassesOnThreeMarkers(check_result, marked)
            /\ check_result.passed =>
                  /\ check_result.detail.nums
                        = <<Len(marked), MarkersIn(marked), Len(empty)>>
                  /\ check_result.detail.items
                        = SubSeq(NamesOf(marked), 1, Min(5, Len(marked)))
            /\ ~check_result.passed =>
                  IF MarkersIn(marked) > 0
                  THEN /\ check_result.detail.text
                             = "Only {m} @Test method(s) in {n} file(s) - minimum 3 required"
                       /\ check_result.detail.nums
                             = <<MarkersIn(marked), Len(marked)>>
                  ELSE /\ check_result.detail.text
                             = "No test files with @Test methods for core domain"
                       /\ check_result.detail.nums = <<>>

\* check_domain_test_coverage passed on three markers spread over two
\* files, beside one file without a marker
ThreeMarkersOverTwoFilesPass ==
    /\ project = PortsProject
    /\ op = "check" /\ invoked = <<"domain_test_coverage">>
    /\ check_result.dimension = "domain_test_coverage"
    /\ check_result.passed
    /\ check_result.detail.nums = <<2, 3, 1>>

\* the adapter roles of the bridge check
AdapterRoles == <<"persistence", "rest", "events">>

\* the *Configuration.java entries directly in the package of the role
ConfigsOfRole(role) ==
    LET dir == WalkTree(project.main, role)
        IsConfig(e) == /\ IsPrefix(dir.path, e.path)
                       /\ Len(e.path) = Len(dir.path) + 1
                       /\ GlobMatch("*Configuration.java", NameOf(e.path))
    IN  IF dir.found THEN SelectSeq(project.main.entries, IsConfig) ELSE <<>>

\* the three classes of a role
HoldsBean(e) ==
    /\ e.file.readable
    /\ \E l \in 1..Len(e.file.content) : Contains(e.file.content[l], BEAN)
Conforming(role) ==
    \E c \in 1..Len(ConfigsOfRole(role)) : HoldsBean(ConfigsOfRole(role)[c])
MissingConfig(role) ==
    ~WalkTree(project.main, role).found \/ ConfigsOfRole(role) = <<>>
MissingMarker(role) ==
    /\ ConfigsOfRole(role) # <<>>
    /\ \A c \in 1..Len(ConfigsOfRole(role)) : ~HoldsBean(ConfigsOfRole(role)[c])

\* C25: check_bridge_configs puts each of the roles persistence, rest and
\* events in exactly one class: conforming, missing config, or missing
\* marker; it passes exactly when all three conform; a failing detail names
\* the roles without a config and the roles without a marker in two lists.
BridgeRolesClassifiedThreeWays ==
    check_result.dimension = "bridge_configs" =>
        /\ \A r \in 1..Len(AdapterRoles) :
              \E role \in {AdapterRoles[r]} :
                  /\ Conforming(role) \/ MissingConfig(role) \/ MissingMarker(role)
                  /\ ~(Conforming(role) /\ MissingConfig(role))
                  /\ ~(Conforming(role) /\ MissingMarker(role))
                  /\ ~(MissingConfig(role) /\ MissingMarker(role))
        /\ check_result.passed <=>
              \A r \in 1..Len(AdapterRoles) : Conforming(AdapterRoles[r])
        /\ check_result.passed =>
              /\ Len(check_result.detail.items) = 1
              /\ [n \in 1..Len(check_result.detail.items[1]) |->
                     check_result.detail.items[1][n][1]] = AdapterRoles
        /\ ~check_result.passed =>
              /\ Len(check_result.detail.items) = 2
              /\ check_result.detail.items[1] = SelectSeq(AdapterRoles, MissingConfig)
              /\ [n \in 1..Len(check_result.detail.items[2]) |->
                     check_result.detail.items[2][n][1]]
                    = SelectSeq(AdapterRoles, MissingMarker)

\* check_bridge_configs was called where persistence/ has a configuration
\* without @Bean, rest/ conforms and events/ does not exist
OneRoleOfEachClass ==
    /\ project = PortsProject
    /\ op = "check" /\ invoked = <<"bridge_configs">>
    /\ check_result.dimension = "bridge_configs"
    /\ ~check_result.passed
    /\ check_result.detail.items[1] = <<"events">>
    /\ check_result.detail.items[2] = << <<"persistence", "FooConfiguration.java">> >>

-----------------------------------------------------------------------------
(* score and all_passed of one result, read one after the other.           *)

\* the two properties are read of the same scope of the same lists, in
\* either order, by this step
ReadsScoreAndFlag ==
    /\ result' = result
    /\ accessed'.phase = accessed.phase
    /\ {accessed.prop, accessed'.prop} \in
           {{"score", "all_passed"}, {"overall_score", "VerifyResult.all_passed"}}

\* C29: for a PhaseResult or VerifyResult with at least one check and
\* positive weights only, all_passed is true exactly when the score is 100;
\* with no check at all, all_passed is true and the score is 0.0.
AllPassedAgreesWithFullScore ==
    [][ReadsScoreAndFlag =>
           LET scope == ScopeOf(result, accessed)
               score_read == IF accessed.prop \in {"score", "overall_score"}
                             THEN score_value ELSE score_value'
               flag_read == IF accessed.prop \in {"score", "overall_score"}
                            THEN flag_value' ELSE flag_value
           IN  /\ (/\ scope # {}
                   /\ \A pos \in scope : result[pos[1]].checks[pos[2]].weight > 0) =>
                      (flag_read <=>
                          (~score_read.raised /\ score_read.num = 100 * score_read.den))
               /\ scope = {} => (flag_read /\ score_read = ZeroScore)]_vars

\* all_passed was read true of a phase of two checks of positive weight
\* whose score is 100
TwoPassingChecksScoreHundred ==
    /\ accessed.prop = "all_passed"
    /\ flag_value
    /\ Len(result[accessed.phase].checks) = 2
    /\ \A c \in 1..2 : result[accessed.phase].checks[c].weight > 0
    /\ score(result[accessed.phase].checks) = [raised |-> FALSE, num |-> 100, den |-> 1]

-----------------------------------------------------------------------------
(* The pairer on two markers at the same distance from a @Bean.            *)

\* the marker at line index c is a @ConditionalOnMissingBean of the file
\* being paired, not yet used, and within the window of the @Bean
UnusedWithinWindow(c, bean_idx) ==
    /\ \E m \in 1..Len(comb_indices) : comb_indices[m] = c
    /\ c \notin used_combs
    /\ _effective_distance(c, bean_idx, lines, comment_lines) <= PairingWindow

\* C30: when two unused @ConditionalOnMissingBean markers within the window
\* are at the same raw line distance from a @Bean, one above and one below,
\* and no candidate is nearer, the pairer consumes the one above, which has
\* the lower line index.
TieConsumesMarkerAbove ==
    [][(pc = "beans" /\ k <= Len(bean_indices) /\ k' = k + 1) =>
           \E bean_idx \in {bean_indices[k]} :
               \A d \in 1..Len(lines) :
                   (/\ UnusedWithinWindow(bean_idx - d, bean_idx)
                    /\ UnusedWithinWindow(bean_idx + d, bean_idx)
                    /\ \A nearer \in 0..(d - 1) :
                          /\ ~UnusedWithinWindow(bean_idx - nearer, bean_idx)
                          /\ ~UnusedWithinWindow(bean_idx + nearer, bean_idx)) =>
                       /\ used_combs' = used_combs \cup {bean_idx - d}
                       /\ pairs' = pairs \cup {<<f, bean_idx, bean_idx - d>>}]_vars

\* a @Bean has just been paired with the marker above it while the marker
\* at the same distance below it was unused and within the window
MarkerBelowLeftUnused ==
    /\ pc \in {"beans", "files"} /\ k > 1 /\ k <= Len(bean_indices) + 1
    /\ \E p \in pairs, d \in 1..Len(lines) :
          /\ files_to_scan[p[1]].readable
          /\ lines = files_to_scan[p[1]].content
          /\ p[2] = bean_indices[k - 1]
          /\ p[3] = p[2] - d
          /\ UnusedWithinWindow(p[2] + d, p[2])

-----------------------------------------------------------------------------
(* ResultsRecorder.record: a new attempt entry from a VerifyResult.        *)

\* round(x) of a float x >= 0 held as num / den: halves go to the even side
Round(x) ==
    LET q == x.num \div x.den
        r == x.num % x.den
    IN  IF 2 * r < x.den THEN q
        ELSE IF 2 * r > x.den THEN q + 1
        ELSE IF q % 2 = 0 THEN q ELSE q + 1

RECURSIVE SortedByPhase(_)
\* sorted(result.phases, key=lambda p: p.phase): stable, ascending
SortedByPhase(phases) ==
    IF phases = <<>> THEN <<>>
    ELSE LET init == SortedByPhase(SubSeq(phases, 1, Len(phases) - 1))
             c == phases[Len(phases)]
             n == Cardinality({p \in 1..Len(init) : init[p].phase <= c.phase})
         IN  SubSeq(init, 1, n) \o <<c>> \o SubSeq(init, n + 1, Len(init))

RECURSIVE HighestPassing(_, _)
\* the loop over the phases without the `break`
HighestPassing(sorted, reached) ==
    IF sorted = <<>> THEN reached
    ELSE HighestPassing(Tail(sorted),
                        IF all_passed(sorted[1].checks) THEN sorted[1].phase
                        ELSE reached)

RECURSIVE ReachedFrom(_, _)
\* the loop over the sorted phases: the phase of each passing one, until
\* the first that does not pass
ReachedFrom(sorted, reached) ==
    IF sorted = <<>> THEN reached
    ELSE IF all_passed(sorted[1].checks)
    THEN ReachedFrom(Tail(sorted), sorted[1].phase)
    ELSE reached

\* phase_reached of the attempt
phase_reached(phases) == ReachedFrom(SortedByPhase(phases), 0)

\* scores: phase number -> round(score), the last PhaseResult of a number
\* overwriting the earlier ones
ScoresByPhase(phases) ==
    [n \in {phases[p].phase : p \in 1..Len(phases)} |->
        LET last == CHOOSE p \in 1..Len(phases) :
                        /\ phases[p].phase = n
                        /\ \A q \in (p + 1)..Len(phases) : phases[q].phase # n
        IN  Round(score(phases[last].checks))]

\* VerifyResult.total_dimensions, VerifyResult.passing_dimensions
total_dimensions(phases) == Len(AllChecks(phases))
passing_dimensions(phases) ==
    LET IsPassed(c) == c.passed
    IN  Len(SelectSeq(AllChecks(phases), IsPassed))

\* the attempt built from the result, as the number attempt_num
Attempt(attempt_num, phases, dry_run) ==
    [attempt |-> attempt_num,
     phase_reached |-> phase_reached(phases),
     scores |-> ScoresByPhase(phases),
     notes |-> <<passing_dimensions(phases), total_dimensions(phases),
                 Round(overall_score(phases))>>,
     saved |-> ~dry_run]

\* the position of the service entry of the name, 0 when there is none
ServiceAt(data, service_name) ==
    IF \E s \in 1..Len(data) : data[s].name = service_name
    THEN CHOOSE s \in 1..Len(data) :
             /\ data[s].name = service_name
             /\ \A e \in 1..(s - 1) : data[e].name # service_name
    ELSE 0

\* the services with an entry for the name, appended when there was none
WithService(data, service_name) ==
    IF ServiceAt(data, service_name) = 0
    THEN Append(data, [name |-> service_name, tier |-> "Unknown", attempts |-> <<>>])
    ELSE data

MaxRecordPhases == 3
MaxRecords == 2

\* the phase numbers and the checks of the PhaseResults recorded
RecordedPhaseNumbers == {1, 2, 3}
RecordedChecks ==
    {<<>>} \cup {<<CheckResult("dimension", b, "", 1, 0)>> : b \in BOOLEAN}
ServiceNames == {"billing", "orders"}

InitRecord ==
    /\ pc = "record"
    /\ \E n \in 0..MaxRecordPhases :
          \E numbers \in [1..n -> RecordedPhaseNumbers],
             lists \in [1..n -> RecordedChecks] :
              result = [p \in 1..n |-> PhaseResult(numbers[p], lists[p])]
    /\ accessed = NoAccess /\ score_value = ZeroScore /\ flag_value = FALSE
    /\ lines = <<>> /\ comment_lines = {}
    /\ ClassifierIdle
    /\ PairerIdle
    /\ DistanceIdle
    /\ RunIdle

\* recorder.record(service_name, result, dry_run)
Record ==
    /\ pc = "record"
    /\ now < MaxRecords
    /\ \E service_name \in ServiceNames, dry_run \in BOOLEAN :
          \E services \in {WithService(poc_data, service_name)} :
              \E s \in {ServiceAt(services, service_name)} :
                  \E entry \in {Attempt(Len(services[s].attempts) + 1, result,
                                        dry_run)} :
                      /\ attempt' = entry
                      /\ poc_data' =
                            IF dry_run THEN poc_data
                            ELSE [services EXCEPT ![s].attempts = Append(@, entry)]
    /\ now' = now + 1
    /\ UNCHANGED <<pc, is_reference, state_file, guide>>
    /\ UNCHANGED <<classifierVars, pairerVars, distanceVars, scoreVars, checkerVars,
                   importVars>>

NextRecord == Record

SpecRecord == InitRecord /\ [][NextRecord]_vars

\* C27: record sets phase_reached to the highest consecutive passing phase:
\* the number of the last phase, in ascending order of phase, before which
\* and at which every phase passed, and 0 when the first phase fails; a
\* phase that passes after a failing one never raises it.
PhaseReachedIsHighestConsecutivePass ==
    attempt.attempt > 0 =>
        \E ordered \in {SortedByPhase(result)} :
            LET Passes(p) == \A c \in 1..Len(ordered[p].checks) :
                                 ordered[p].checks[c].passed
                upto == {n \in 1..Len(ordered) : \A p \in 1..n : Passes(p)}
            IN  /\ upto = {} => attempt.phase_reached = 0
                /\ upto # {} =>
                      attempt.phase_reached
                          = ordered[CHOOSE n \in upto : \A m \in upto : m <= n].phase
                /\ \A p \in 1..Len(ordered) :
                      ~Passes(p) =>
                          \A later \in (p + 1)..Len(ordered) :
                              ordered[later].phase > ordered[p].phase =>
                                  attempt.phase_reached # ordered[later].phase

\* phase 1 passes, phase 2 fails, phase 3 passes: phase_reached is 1
PassAfterFailDoesNotCount ==
    /\ attempt.attempt > 0
    /\ Len(result) = 3
    /\ \A p \in 1..3 : result[p].phase = p /\ Len(result[p].checks) = 1
    /\ result[1].checks[1].passed
    /\ ~result[2].checks[1].passed
    /\ result[3].checks[1].passed
    /\ attempt.phase_reached = 1

-----------------------------------------------------------------------------
(* The state file and the commands init and guide.  The clock advances by  *)
(* one with every command; the time of a command is its number.            *)

\* {"started": now, "completed": None}
Started(t) ==
    [present |-> TRUE, started |-> t, completed |-> 0,
     gate_skipped |-> FALSE, gate_skipped_at |-> 0]

\* StateManager.save(state): the file written
save(state) ==
    [exists |-> TRUE, service_name |-> state.service_name,
     current_phase |-> state.current_phase, phase_times |-> state.phase_times]

\* StateManager.load() raises ValueError
LoadRaises(file) == file.service_name = ""

\* StateManager.load(): the MigrationState read
load(file) ==
    [service_name |-> file.service_name, current_phase |-> file.current_phase,
     phase_times |-> file.phase_times]

\* StateManager.create(...): the MigrationState saved and returned
create(service_name, t) ==
    [service_name |-> service_name, current_phase |-> 0,
     phase_times |-> [n \in 0..5 |-> IF n = 0 THEN Started(t) ELSE NoEntry]]

\* `phase = target_phase if target_phase is not None else state.current_phase`
PhaseOf(target_phase, state) ==
    IF target_phase # <<>> THEN target_phase[1] ELSE state.current_phase

\* `if phase < 1 or phase > 5`
WorkspaceView(phase) == phase < 1 \/ phase > 5

\* the next phase without the stop at 5
NextPhaseUncapped(phase) == phase + 1

\* `phase + 1 if phase < 5 else 5`
NextPhase(phase) == IF phase < 5 THEN phase + 1 ELSE 5

\* the state after the gate check of the phase has passed
AfterGate(state, phase, t) ==
    LET completed == IF state.phase_times[phase].present
                     THEN [state.phase_times EXCEPT ![phase].completed = t]
                     ELSE state.phase_times
        next == NextPhase(phase)
    IN  [state EXCEPT
            !.current_phase = next,
            !.phase_times = IF next <= 5 /\ ~completed[next].present
                            THEN [completed EXCEPT ![next] = Started(t)]
                            ELSE completed]

\* --skip-gate taken for a passed gate: the phase advances as well
AfterSkipAdvancing(state, phase, t) ==
    LET times == IF ~state.phase_times[phase].present
                 THEN [state.phase_times EXCEPT ![phase] = Started(t)]
                 ELSE state.phase_times
    IN  [state EXCEPT
            !.current_phase = NextPhase(phase),
            !.phase_times = [times EXCEPT ![phase].gate_skipped = TRUE,
                                          ![phase].gate_skipped_at = t]]

\* the state after --skip-gate on the phase
AfterSkip(state, phase, t) ==
    LET times == IF ~state.phase_times[phase].present
                 THEN [state.phase_times EXCEPT ![phase] = Started(t)]
                 ELSE state.phase_times
    IN  [state EXCEPT !.phase_times =
            [times EXCEPT ![phase].gate_skipped = TRUE,
                          ![phase].gate_skipped_at = t]]

\* what a command did
Command(name, exit_code, target_phase, skip_gate, view, phase, gate, saved) ==
    [command |-> name, exit_code |-> exit_code, target_phase |-> target_phase,
     skip_gate |-> skip_gate, view |-> view, phase |-> phase, gate |-> gate,
     saved |-> saved]

MaxCommands == 4

\* --phase: absent, or an integer
PhaseArguments == {<<>>} \cup {<<n>> : n \in -1..7}
InitServiceNames == {"", "billing"}

\* checker.run_phase(phase) on the target: the checks of the phase, each
\* passing or failing
GateResults(phase) ==
    LET dims == DimsOfPhase(DIMENSIONS, phase)
    IN  {RunPhaseResult(phase,
             [d \in 1..Len(dims) |->
                 CheckResult(dims[d].key, flags[d], NoCheck.detail,
                             dims[d].weight, phase)]) :
         flags \in [1..Len(dims) -> BOOLEAN]}

InitGuide ==
    /\ pc = "command"
    /\ is_reference \in BOOLEAN
    /\ state_file = NoStateFile /\ now = 0
    /\ guide = NoCommand /\ poc_data = <<>> /\ attempt = NoAttempt
    /\ lines = <<>> /\ comment_lines = {}
    /\ ClassifierIdle
    /\ PairerIdle
    /\ DistanceIdle
    /\ ScoreIdle
    /\ CheckerIdle
    /\ ImportIdle

\* what no command changes
CommandFrame ==
    /\ now' = now + 1
    /\ UNCHANGED <<pc, is_reference, poc_data, attempt>>
    /\ UNCHANGED <<classifierVars, pairerVars, distanceVars, scoreVars, checkerVars,
                   importVars>>

\* init --service-name NAME on a target without a state file
CmdInit ==
    /\ pc = "command" /\ now < MaxCommands
    /\ ~state_file.exists
    /\ \E service_name \in InitServiceNames :
          state_file' = save(create(service_name, now + 1))
    /\ guide' = Command("init", 0, <<>>, FALSE, "initialized", 0, "none", TRUE)
    /\ CommandFrame

\* init on a target that has a state file: return 1
CmdInitRefused ==
    /\ pc = "command" /\ now < MaxCommands
    /\ state_file.exists
    /\ guide' = Command("init", 1, <<>>, FALSE, "exists", 0, "none", FALSE)
    /\ UNCHANGED state_file
    /\ CommandFrame

\* guide on a target whose state file has no service name: cmd_guide loads
\* the state before the guide runs, and load() raises ValueError
GuideLoadRaises ==
    /\ pc = "command" /\ now < MaxCommands
    /\ state_file.exists /\ LoadRaises(state_file)
    /\ \E target_phase \in PhaseArguments, skip_gate \in BOOLEAN :
          guide' = Command("guide", 1, target_phase, skip_gate, "ValueError",
                           0, "none", FALSE)
    /\ UNCHANGED state_file
    /\ CommandFrame

\* guide on the reference repository: run_all is printed
GuideSelfTest ==
    /\ pc = "command" /\ now < MaxCommands
    /\ state_file.exists => ~LoadRaises(state_file)
    /\ is_reference
    /\ \E target_phase \in PhaseArguments, skip_gate \in BOOLEAN :
          guide' = Command("guide", 0, target_phase, skip_gate, "self-test",
                           0, "none", FALSE)
    /\ UNCHANGED state_file
    /\ CommandFrame

\* guide without a state file: sys.exit(1)
GuideNoState ==
    /\ pc = "command" /\ now < MaxCommands
    /\ ~is_reference
    /\ ~state_file.exists
    /\ \E target_phase \in PhaseArguments, skip_gate \in BOOLEAN :
          guide' = Command("guide", 1, target_phase, skip_gate, "no-state",
                           0, "none", FALSE)
    /\ UNCHANGED state_file
    /\ CommandFrame

\* the guide gets as far as the phase
GuideReaches ==
    /\ pc = "command" /\ now < MaxCommands
    /\ ~is_reference
    /\ state_file.exists /\ ~LoadRaises(state_file)

\* guide for a phase below 1 or above 5: the Phase 0 workspace view
GuideWorkspace ==
    \E target_phase \in PhaseArguments, skip_gate \in BOOLEAN :
        /\ GuideReaches
        /\ \E phase \in {PhaseOf(target_phase, load(state_file))} :
              /\ WorkspaceView(phase)
              /\ guide' = Command("guide", 0, target_phase, skip_gate, "phase0",
                                  phase, "none", FALSE)
        /\ UNCHANGED state_file
        /\ CommandFrame

\* guide for a phase of 1..5 with its gate check
GuideGate ==
    \E target_phase \in PhaseArguments :
        /\ GuideReaches
        /\ \E phase \in {PhaseOf(target_phase, load(state_file))} :
              /\ ~WorkspaceView(phase)
              /\ \E gate_result \in GateResults(phase) :
                    \E gate_passed \in {VerifyResult_all_passed(gate_result)} :
                        /\ state_file' =
                              IF gate_passed
                              THEN save(AfterGate(load(state_file), phase, now + 1))
                              ELSE state_file
                        /\ guide' = Command("guide", 0, target_phase, FALSE,
                                            "phase", phase,
                                            IF gate_passed THEN "passed"
                                            ELSE "failed",
                                            gate_passed)
        /\ CommandFrame

\* guide --skip-gate for a phase of 1..5
GuideSkipGate ==
    \E target_phase \in PhaseArguments :
        /\ GuideReaches
        /\ \E phase \in {PhaseOf(target_phase, load(state_file))} :
              /\ ~WorkspaceView(phase)
              /\ state_file' = save(AfterSkip(load(state_file), phase, now + 1))
              /\ guide' = Command("guide", 0, target_phase, TRUE, "phase", phase,
                                  "skipped", TRUE)
        /\ CommandFrame

NextGuide ==
    \/ CmdInit \/ CmdInitRefused
    \/ GuideLoadRaises \/ GuideSelfTest \/ GuideNoState
    \/ GuideWorkspace \/ GuideGate \/ GuideSkipGate

SpecGuide == InitGuide /\ [][NextGuide]_vars

\* this step is a guide command on a target that has a state file and is
\* not the reference repository
GuideRanOnInitializedTarget ==
    /\ now' = now + 1 /\ guide'.command = "guide"
    /\ state_file.exists /\ ~is_reference

\* C26: over any sequence of guide runs on an initialized target that is
\* not the reference, the persisted current_phase changes only in a run
\* whose gate check passed for a phase N of 1..5, and then becomes N + 1, or
\* 5 when N is 5; a run whose gate fails writes nothing to the state file;
\* a --skip-gate run leaves current_phase as it was and records
\* gate_skipped and gate_skipped_at for phase N.
PhaseAdvancesOnlyOnPassedGate ==
    [][GuideRanOnInitializedTarget =>
           /\ state_file'.current_phase # state_file.current_phase =>
                 guide'.gate = "passed"
           /\ guide'.gate = "passed" =>
                 /\ guide'.phase \in 1..5
                 /\ state_file'.current_phase
                       = IF guide'.phase = 5 THEN 5 ELSE guide'.phase + 1
           /\ guide'.gate = "failed" =>
                 state_file' = state_file /\ ~guide'.saved
           /\ guide'.gate = "skipped" =>
                 /\ guide'.phase \in 1..5
                 /\ state_file'.current_phase = state_file.current_phase
                 /\ state_file'.phase_times[guide'.phase].gate_skipped
                 /\ state_file'.phase_times[guide'.phase].gate_skipped_at = now'
                 /\ \A n \in 0..5 :
                       n # guide'.phase =>
                           state_file'.phase_times[n] = state_file.phase_times[n]]_vars

\* the gate of phase 2 has passed on a target whose gate of phase 1 was
\* skipped: current_phase is 3
GateOfPhaseTwoPassedAfterSkip ==
    /\ guide.command = "guide" /\ guide.gate = "passed" /\ guide.phase = 2
    /\ state_file.current_phase = 3
    /\ state_file.phase_times[1].gate_skipped
    /\ ~state_file.phase_times[2].gate_skipped

\* C28: after init and any sequence of guide runs, whatever the --phase
\* arguments, the gate outcomes and the use of --skip-gate, the persisted
\* current_phase is an integer of 0..5; a --phase value below 1 or above 5
\* changes nothing in the state file, and the guide that gets as far as the
\* choice of the phase shows the Phase 0 workspace view.
CurrentPhaseStaysWithinZeroToFive ==
    /\ [](state_file.exists => state_file.current_phase \in 0..5)
    /\ [][(/\ now' = now + 1 /\ guide'.command = "guide"
           /\ guide'.target_phase # <<>>
           /\ state_file.exists
           /\ guide'.target_phase[1] < 1 \/ guide'.target_phase[1] > 5) =>
              /\ state_file' = state_file
              /\ ~guide'.saved
              /\ (~is_reference /\ ~LoadRaises(state_file)) =>
                    guide'.view = "phase0" /\ guide'.gate = "none"]_vars

\* guide --phase 7 has shown the workspace view on a target that had
\* reached phase 5
PhaseSevenShowsWorkspaceView ==
    /\ guide.command = "guide" /\ guide.target_phase = <<7>>
    /\ guide.view = "phase0"
    /\ state_file.exists /\ state_file.current_phase = 5

====
